---- MODULE Spec2Model ----
(***************************************************************************)
(* Inventory Health Monitor (ai-stock-dist-snowflake).                     *)
(*                                                                         *)
(* The dashboard loads one snapshot of inventory rows (from the Snowflake  *)
(* dynamic tables or from the demo generator) and renders KPIs, a heatmap, *)
(* alerts, a reorder list, an aggregated summary and a demand forecast.    *)
(*                                                                         *)
(* Numeric conventions                                                     *)
(*   - quantities are integers;                                            *)
(*   - a field named ..._x2 holds twice the value of the program's field,  *)
(*     so that "x * 0.5" and "x * 1.5" stay integral;                      *)
(*   - DAYS_UNTIL_STOCKOUT is held in tenths of a day (the demo generator  *)
(*     rounds to one decimal); the sentinel 999 is therefore 9990;         *)
(*   - a mean is held as the pair [sum, count] it is the quotient of;      *)
(*     count = 0 is pandas' NaN / SQL's NULL.                              *)
(***************************************************************************)
EXTENDS Integers, Sequences, FiniteSets, Bags, TLC

VARIABLES
    item,             \* the InventoryItem a pure computation is given
    rec,              \* the row of DT_REORDER_RECOMMENDATIONS computed from it
    days,             \* the days_until_stockout computed from it
    draws,            \* the normal samples drawn by the forecaster for it
    forecast,         \* the forecast record computed from it
    pc,               \* position of the computation or render under way
    USE_SNOWFLAKE,    \* TRUE when the connector module was imported
    conn,             \* TRUE when get_connection() yields a connection
    dt_stock_health,  \* rows of the dynamic table DT_STOCK_HEALTH
    dt_active_alerts, \* rows of the dynamic table DT_ACTIVE_ALERTS
    dt_reorder,       \* rows of the dynamic table DT_REORDER_RECOMMENDATIONS
    dt_heatmap,       \* TRUE when DT_CATEGORY_HEATMAP yields pre-aggregated rows
    stock_df,         \* the snapshot loaded by main
    alerts_df,        \* the alert frame loaded by main
    reorder_df,       \* the reorder frame loaded by main
    priority_col,     \* TRUE when reorder_df has the column PRIORITY_SCORE
    render_conn,      \* the conn main binds: TRUE for a connection, FALSE for None
    filtered_df,      \* the copy of the snapshot main filters by the sidebar
    heatmap_df,       \* the pre-aggregated frame of DT_CATEGORY_HEATMAP (<<>> when None or empty)
    kpi,              \* the KPI row of main
    heatmap,          \* the pivot shown by display_heatmap
    alert_summary,    \* the summary row of display_alerts
    urgent,           \* the Urgent Items metric of display_reorder_list
    analytics,        \* the ABC figures of display_analytics
    aggregated,       \* the result of aggregate_inventory_data
    prompt,           \* the percentages of build_inventory_insights_prompt
    metrics,          \* the result of calculate_stock_metrics
    sessions,         \* the renders of two browser sessions and what they share
    inventory_data,   \* generate_inventory_data: the item simulated and its records
    sample_inventory, \* the records of generate_sample_inventory
    alert_history,    \* the alerts of generate_alert_history and those load_demo_data keeps
    chat,             \* cortex_chat_interface: its position and what it did for the question
    export_log        \* log_export: its calls and the rows it added to EXPORT_LOG in this render

generatorVars == <<inventory_data, sample_inventory, alert_history>>
pureVars   == <<item, rec, days, draws, forecast, metrics, sessions, generatorVars, chat>>
dbVars     == <<USE_SNOWFLAKE, conn, dt_stock_health, dt_active_alerts, dt_reorder, dt_heatmap>>
frameVars  == <<stock_df, alerts_df, reorder_df, priority_col, render_conn, filtered_df, heatmap_df>>
outputVars == <<kpi, heatmap, alert_summary, urgent, export_log, analytics, aggregated, prompt>>
vars == <<item, rec, days, draws, forecast, pc, USE_SNOWFLAKE, conn, dt_stock_health, dt_active_alerts, dt_reorder,
          dt_heatmap, stock_df, alerts_df, reorder_df, priority_col, render_conn, filtered_df, heatmap_df,
          kpi, heatmap, alert_summary, urgent, export_log, analytics, aggregated, prompt, metrics, sessions,
          inventory_data, sample_inventory, alert_history, chat>>

NotShown == [shown |-> FALSE]

NoRow == [none |-> TRUE]

\* no question was put to the chat
NoChat == [asked |-> FALSE]

\* log_export was not called
NoExport == [calls |-> 0, rows |-> <<>>]

Max(a, b) == IF a >= b THEN a ELSE b
Min(a, b) == IF a <= b THEN a ELSE b

\* a real number as the fraction num / den, den > 0
Frac(n, d) == [num |-> n, den |-> d]
Less(x, y) == x.num * y.den < y.num * x.den
LessEq(x, y) == x.num * y.den <= y.num * x.den
Whole(n) == Frac(n, 1)

\* what a division by zero yields: ZeroDivisionError for Python numbers,
\* NaN or inf for pandas and numpy values
DivisionByZero == [undefined |-> "division by zero"]

\* n / d
Divide(n, d) == IF d = 0 THEN DivisionByZero ELSE Frac(n, d)

\* SQL NULL, Python None, pandas NaN
NoValue == [undefined |-> "no value"]

\* no session has started a render
NoSessions == [started |-> FALSE]

(***************************************************************************)
(* Bounds of the model.                                                    *)
(***************************************************************************)
MaxQty      == 8
MaxSafetyX2 == 8
MaxReorder  == 8
MaxReserved == 2
MaxSales    == 2
MaxLead     == 2

(***************************************************************************)
(* ReorderPlanner: the columns RECOMMENDED_ORDER_QTY and PRIORITY_SCORE of *)
(* DT_REORDER_RECOMMENDATIONS.  The dynamic table is defined in SQL that   *)
(* is not part of the Python sources; it is modelled from sections 4.2     *)
(* of the specification.                                                   *)
(***************************************************************************)

\* the formula without the floor at 0
RecommendedOrderQtyX2_NoFloor(ss2, avg, lead, avail) ==
    ss2 + 3 * avg * lead - 2 * avail

\* max(0, safety_stock + avg_daily_sales * lead_time_days * 1.5 - available_stock), doubled
RecommendedOrderQtyX2(ss2, avg, lead, avail) ==
    Max(0, ss2 + 3 * avg * lead - 2 * avail)

\* the rows of the reorder point tried before the rows of the safety stock
PriorityScore_ReorderFirst(q, ss2, rop) ==
    IF q <= 0 THEN 10
    ELSE IF 4 * q <= 3 * rop THEN 7
    ELSE IF q <= rop THEN 6
    ELSE IF 4 * q <= ss2 THEN 9
    ELSE IF 2 * q <= ss2 THEN 8
    ELSE 5

\* an item at or below its safety stock scored as one approaching the reorder point
PriorityScore_SafetyScoredSeven(q, ss2, rop) ==
    IF q <= 0 THEN 10
    ELSE IF 4 * q <= ss2 THEN 9
    ELSE IF 2 * q <= ss2 THEN 7
    ELSE IF 4 * q <= 3 * rop THEN 7
    ELSE IF q <= rop THEN 6
    ELSE 5

\* strict comparisons instead of <=
PriorityScore_Strict(q, ss2, rop) ==
    IF q < 0 THEN 10
    ELSE IF 4 * q < ss2 THEN 9
    ELSE IF 2 * q < ss2 THEN 8
    ELSE IF 4 * q < 3 * rop THEN 7
    ELSE IF q < rop THEN 6
    ELSE 5

\* first match wins, by descending severity (ss2 is twice the safety stock)
PriorityScore(q, ss2, rop) ==
    IF q <= 0 THEN 10
    ELSE IF 4 * q <= ss2 THEN 9
    ELSE IF 2 * q <= ss2 THEN 8
    ELSE IF 4 * q <= 3 * rop THEN 7
    ELSE IF q <= rop THEN 6
    ELSE 5

ReorderRecommendation(q, avail, ss2, rop, avg, lead) ==
    [ QUANTITY_ON_HAND         |-> q,
      AVAILABLE_STOCK          |-> avail,
      SAFETY_STOCK_x2          |-> ss2,
      REORDER_POINT            |-> rop,
      AVG_DAILY_SALES          |-> avg,
      LEAD_TIME_DAYS           |-> lead,
      RECOMMENDED_ORDER_QTY_x2 |-> RecommendedOrderQtyX2(ss2, avg, lead, avail),
      PRIORITY_SCORE           |-> PriorityScore(q, ss2, rop) ]

\* inputs of the planner: the small ranges plus the scenario of the
\* specification (45 on hand, safety stock 50, reorder point 100)
QtyVals     == (-1 .. MaxQty) \cup {45}
SafetyX2Vals == (0 .. MaxSafetyX2) \cup {100}
ReorderVals == (0 .. MaxReorder) \cup {100}
ReservedVals == 0 .. MaxReserved
SalesVals   == 0 .. MaxSales
LeadVals    == 1 .. MaxLead

InventoryItems ==
    { [ QUANTITY_ON_HAND |-> q,
        AVAILABLE_STOCK  |-> q - r,
        SAFETY_STOCK_x2  |-> ss2,
        REORDER_POINT    |-> rop,
        AVG_DAILY_SALES  |-> avg,
        LEAD_TIME_DAYS   |-> lead ] :
      q \in QtyVals, r \in ReservedVals, ss2 \in SafetyX2Vals,
      rop \in ReorderVals, avg \in SalesVals, lead \in LeadVals }

\* one refresh of the item's row of DT_REORDER_RECOMMENDATIONS
ComputeRecommendation ==
    /\ pc = "planner"
    /\ rec' = ReorderRecommendation(item.QUANTITY_ON_HAND, item.AVAILABLE_STOCK,
                                    item.SAFETY_STOCK_x2, item.REORDER_POINT,
                                    item.AVG_DAILY_SALES, item.LEAD_TIME_DAYS)
    /\ pc' = "planned"
    /\ UNCHANGED <<item, days, draws, forecast, dbVars, frameVars, outputVars, metrics, sessions, generatorVars, chat>>

\* no database, no frame loaded, nothing rendered
NothingLoaded ==
    /\ stock_df = <<>>
    /\ alerts_df = <<>>
    /\ reorder_df = <<>>
    /\ priority_col = FALSE
    /\ render_conn = FALSE
    /\ filtered_df = <<>>
    /\ heatmap_df = <<>>
    /\ kpi = NotShown
    /\ heatmap = NotShown
    /\ alert_summary = NotShown
    /\ urgent = NotShown
    /\ export_log = NoExport
    /\ analytics = NotShown
    /\ aggregated = NotShown
    /\ prompt = NotShown

NoDatabase ==
    /\ USE_SNOWFLAKE = FALSE
    /\ conn = FALSE
    /\ dt_stock_health = <<>>
    /\ dt_active_alerts = <<>>
    /\ dt_reorder = <<>>
    /\ dt_heatmap = FALSE

NoForecast ==
    /\ draws = <<>>
    /\ forecast = NotShown

\* the sample generators have not run
NothingGenerated ==
    /\ inventory_data = NoRow
    /\ sample_inventory = <<>>
    /\ alert_history = NotShown

\* no metrics computed, no session rendering
NoMetrics ==
    /\ metrics = NotShown
    /\ chat = NoChat
    /\ sessions = NoSessions
    /\ NothingGenerated

InitPlanner ==
    /\ item \in InventoryItems
    /\ rec = NoRow
    /\ days = NotShown
    /\ NoForecast
    /\ NoMetrics
    /\ pc = "planner"
    /\ NoDatabase
    /\ NothingLoaded

NextPlanner == ComputeRecommendation

SpecPlanner == InitPlanner /\ [][NextPlanner]_vars


Planned == pc = "planned"

\* the quantity the formula asks for before the floor, doubled
TargetX2(r) ==
    r.SAFETY_STOCK_x2 + 3 * r.AVG_DAILY_SALES * r.LEAD_TIME_DAYS - 2 * r.AVAILABLE_STOCK

Sentinel == 999
SentinelTenths == 10 * Sentinel

\* Python's round(n / d, p) for n >= 0 and d > 0, as a multiple of 1/scale
\* (scale = 10^p).  A quotient that lies exactly half way between two
\* multiples is rounded to the even one when the quotient is a binary
\* fraction (the double is exact); otherwise the double nearest to the
\* quotient lies on one side or the other, and either neighbour may result.
RoundQuotient(n, d, scale) ==
    LET m    == scale * n
        f    == m \div d
        r    == m % d
        five == IF scale = 10 THEN 5 ELSE 25
    IN  IF 2 * r < d THEN {f}
        ELSE IF 2 * r > d THEN {f + 1}
        ELSE IF (2 * f + 1) % five = 0 THEN {IF f % 2 = 0 THEN f ELSE f + 1}
        ELSE {f, f + 1}

\* the quotient cut off instead of rounded
DaysUntilStockout_Truncated(qty, avg, scale) ==
    IF avg > 0 THEN {(scale * qty) \div avg} ELSE {scale * Sentinel}

\* round(qty / avg, p) if avg > 0 else 999, as a multiple of 1/scale
DaysUntilStockout(qty, avg, scale) ==
    IF avg > 0 THEN RoundQuotient(qty, avg, scale) ELSE {scale * Sentinel}

\* an item at its reorder point taken as LOW
StockStatus_AtReorderPoint(qty, reorder) ==
    IF 2 * qty < reorder THEN "CRITICAL"
    ELSE IF qty <= reorder THEN "LOW"
    ELSE "HEALTHY"

\* 'CRITICAL' if qty < reorder * 0.5 else 'LOW' if qty < reorder else 'HEALTHY'
StockStatus(qty, reorder) ==
    IF 2 * qty < reorder THEN "CRITICAL"
    ELSE IF qty < reorder THEN "LOW"
    ELSE "HEALTHY"

\* a score that grows with the shortfall instead of the three fixed tiers
RiskScore_Shortfall(qty, reorder) ==
    IF qty < reorder THEN 70 + (reorder - qty) ELSE 20

\* the two upper tiers exchanged
RiskScore_TiersSwapped(qty, reorder) ==
    IF 2 * qty < reorder THEN 70
    ELSE IF qty < reorder THEN 90
    ELSE 20

\* 90 if qty < reorder * 0.5 else 70 if qty < reorder else 20
RiskScore(qty, reorder) ==
    IF 2 * qty < reorder THEN 90
    ELSE IF qty < reorder THEN 70
    ELSE 20

\* the ranges of random.randint in load_demo_data
DemoQtyMax     == 500
DemoReorderMin == 50
DemoReorderMax == 150
DemoSalesMin   == 5
DemoSalesMax   == 20
DemoCostMin    == 10

\* the draws the model takes from those ranges
DemoQtyVals     == {0, 25, 26, 50, 51, DemoQtyMax}
DemoReorderVals == {DemoReorderMin, DemoReorderMax}
DemoSalesVals   == {DemoSalesMin, DemoSalesMax}
DemoLocations   == {"Mumbai Central"}
DemoCategories  == {"Medicines"}
DemoAbcClasses  == {"A"}
DemoCostVals    == {DemoCostMin}

\* number of rows load_demo_data generates (range(100) in the program)
DemoItems == 2

DemoRow(loc, cat, abc, qty, reorder, avg, cost, d) ==
    [ SKU_ID              |-> 0,
      CATEGORY            |-> cat,
      LOCATION            |-> loc,
      ABC_CLASS           |-> abc,
      UNIT_COST_USD       |-> cost,
      QUANTITY_ON_HAND    |-> qty,
      REORDER_POINT       |-> reorder,
      SAFETY_STOCK_x2     |-> reorder,
      AVG_DAILY_SALES     |-> avg,
      STOCK_STATUS        |-> StockStatus(qty, reorder),
      RISK_SCORE          |-> RiskScore(qty, reorder),
      DAYS_UNTIL_STOCKOUT |-> d ]

DemoRows ==
    UNION { { DemoRow(loc, cat, abc, qty, reorder, avg, cost, d) :
                d \in DaysUntilStockout(qty, avg, 10), loc \in DemoLocations,
                cat \in DemoCategories, abc \in DemoAbcClasses, cost \in DemoCostVals } :
            qty \in DemoQtyVals, reorder \in DemoReorderVals, avg \in DemoSalesVals }

\* df[test]: the rows of a frame that pass a test, in order
Filter(df, Test(_)) == SelectSeq(df, Test)

\* the Stock Status choices of the sidebar the model takes
StatusOptions == {"All", "CRITICAL"}

\* filtered_df = stock_df.copy(), narrowed to the selected status
ApplyFilters(df, selected_status) ==
    IF selected_status = "All" THEN df
    ELSE Filter(df, LAMBDA x : x.STOCK_STATUS = selected_status)

\* demo data whatever the connection
FallsBackToDemo_Always(use_snowflake, connected) == TRUE

\* main loads the demo data when the connector was not imported or
\* load_data_from_snowflake returned None for want of a connection
FallsBackToDemo(use_snowflake, connected) == ~(use_snowflake /\ connected)

\* load_demo_data: the generated frame, the alerts (RISK_SCORE >= 70) and the
\* reorder list (QUANTITY_ON_HAND <= REORDER_POINT); no connection
LoadDemoData ==
    /\ pc = "load"
    /\ FallsBackToDemo(USE_SNOWFLAKE, conn)
    /\ \E f \in [1 .. DemoItems -> DemoRows] :
          LET df == [i \in 1 .. DemoItems |-> [f[i] EXCEPT !.SKU_ID = i]]
          IN  /\ stock_df' = df
              /\ alerts_df' = Filter(df, LAMBDA x : x.RISK_SCORE >= 70)
              /\ reorder_df' = Filter(df, LAMBDA x : x.QUANTITY_ON_HAND <= x.REORDER_POINT)
    /\ priority_col' = FALSE
    /\ render_conn' = FALSE
    /\ heatmap_df' = <<>>
    /\ \E selected_status \in StatusOptions :
          filtered_df' = ApplyFilters(stock_df', selected_status)
    /\ pc' = "kpi"
    /\ UNCHANGED <<pureVars, dbVars, outputVars>>


(***************************************************************************)
(* The Snowflake dynamic tables, as the data the queries return.           *)
(***************************************************************************)
MaxStockRows   == 2
MaxAlertRows   == 2
MaxReorderRows == 3
MaxListQty     == 4

\* all sequences of at most n elements of S
SeqsUpTo(S, n) == UNION { [1 .. k -> S] : k \in 0 .. n }

\* STOCK_STATUS values of DT_STOCK_HEALTH
StockStatuses == {"OUT_OF_STOCK", "CRITICAL", "LOW", "MODERATE", "HEALTHY"}

Locations == {"Mumbai Central", "Delhi NCR"}

\* DAYS_UNTIL_STOCKOUT values of DT_STOCK_HEALTH, in tenths (999 if no sales)
DaysVals == {35, SentinelTenths}

\* a row of DT_STOCK_HEALTH; TOTAL_INVENTORY_VALUE_USD is the table's derived
\* column quantity_on_hand * unit_cost_usd
StockHealthRow(loc, st, d, abc, qty, cost) ==
    [ SKU_ID                    |-> 0,
      CATEGORY                  |-> "Medicines",
      LOCATION                  |-> loc,
      ABC_CLASS                 |-> abc,
      QUANTITY_ON_HAND          |-> qty,
      UNIT_COST_USD             |-> cost,
      TOTAL_INVENTORY_VALUE_USD |-> qty * cost,
      STOCK_STATUS              |-> st,
      RISK_SCORE                |-> IF st \in {"OUT_OF_STOCK", "CRITICAL"} THEN 90
                                    ELSE IF st = "LOW" THEN 70 ELSE 20,
      DAYS_UNTIL_STOCKOUT       |-> d ]

StockHealthRows ==
    { StockHealthRow(loc, st, d, "A", 1, 1) :
      loc \in Locations, st \in StockStatuses, d \in DaysVals }

\* rows of DT_STOCK_HEALTH that differ in class, quantity and unit cost
MaxValuedRows == 2
MaxValuedQty  == 2
MaxUnitCost   == 3

ValuedRows ==
    { StockHealthRow("Mumbai Central", st, 35, abc, qty, cost) :
      st \in {"CRITICAL", "HEALTHY"}, abc \in {"A", "B"},
      qty \in {0, MaxValuedQty}, cost \in {1, MaxUnitCost} }

\* the rows of DT_CATEGORY_HEATMAP, one per location and category
HeatmapRows ==
    << [ LOCATION |-> "Mumbai Central", CATEGORY |-> "Medicines",
         TOTAL_SKUS |-> 2, CRITICAL_SKUS |-> 1,
         AVG_DAYS_COVERAGE |-> 35, AVG_RISK_SCORE |-> 70 ] >>

ActiveAlertRows ==
    { [ SKU_ID              |-> 0,
        CATEGORY            |-> "Medicines",
        LOCATION            |-> "Mumbai Central",
        PRIORITY            |-> pr,
        DAYS_UNTIL_STOCKOUT |-> d ] :
      pr \in {"CRITICAL", "MEDIUM"}, d \in DaysVals }

\* the items behind the rows of DT_REORDER_RECOMMENDATIONS of a list
ListItems ==
    { i \in InventoryItems :
        /\ i.QUANTITY_ON_HAND \in 0 .. MaxListQty
        /\ i.AVAILABLE_STOCK = i.QUANTITY_ON_HAND
        /\ i.SAFETY_STOCK_x2 \in {2, 4}
        /\ i.REORDER_POINT = 3
        /\ i.AVG_DAILY_SALES = 1
        /\ i.LEAD_TIME_DAYS = 1 }

ReorderRows ==
    { ReorderRecommendation(i.QUANTITY_ON_HAND, i.AVAILABLE_STOCK, i.SAFETY_STOCK_x2,
                            i.REORDER_POINT, i.AVG_DAILY_SALES, i.LEAD_TIME_DAYS) :
      i \in ListItems }

\* the rows of a table numbered as the query returns them
Numbered(rows) == [i \in 1 .. Len(rows) |-> [rows[i] EXCEPT !.SKU_ID = i]]

\* load_data_from_snowflake: one query per dynamic table; a query that raises
\* yields an empty frame (without columns)
LoadDataFromSnowflake ==
    /\ pc = "load"
    /\ ~FallsBackToDemo(USE_SNOWFLAKE, conn)
    /\ render_conn' = TRUE
    /\ stock_df' \in {dt_stock_health, <<>>}
    /\ alerts_df' \in {dt_active_alerts, <<>>}
    /\ \E ok \in BOOLEAN :
          /\ reorder_df' = IF ok THEN dt_reorder ELSE <<>>
          /\ priority_col' = ok
    /\ heatmap_df' = IF dt_heatmap THEN HeatmapRows ELSE <<>>
    /\ \E selected_status \in StatusOptions :
          filtered_df' = ApplyFilters(stock_df', selected_status)
    /\ pc' = IF Len(stock_df') = 0 THEN "nodata" ELSE "kpi"
    /\ UNCHANGED <<pureVars, dbVars, outputVars>>

(***************************************************************************)
(* The render of main and the display components.                          *)
(***************************************************************************)
RECURSIVE SumSeq(_)
SumSeq(values) ==
    IF Len(values) = 0 THEN 0 ELSE Head(values) + SumSeq(Tail(values))

\* Series.mean(): the sum and the number of values (count 0 is NaN)
Mean(df, Value(_)) ==
    [ sum   |-> SumSeq([i \in 1 .. Len(df) |-> Value(df[i])]),
      count |-> Len(df) ]

\* df[df['DAYS_UNTIL_STOCKOUT'] < 999]['DAYS_UNTIL_STOCKOUT'].mean()
AvgDaysToStockout(df) ==
    Mean(Filter(df, LAMBDA x : x.DAYS_UNTIL_STOCKOUT < SentinelTenths),
         LAMBDA x : x.DAYS_UNTIL_STOCKOUT)

\* df[column].sum()
SumColumn(df, column) == SumSeq([i \in 1 .. Len(df) |-> df[i][column]])

\* stock_df['QUANTITY_ON_HAND'].sum() * stock_df['UNIT_COST_USD'].mean()
KpiTotalValue(df) ==
    Divide(SumColumn(df, "QUANTITY_ON_HAND") * SumColumn(df, "UNIT_COST_USD"), Len(df))

\* the KPI row of main (reached only with a snapshot that is not empty)
KpiRow ==
    /\ pc = "kpi"
    /\ LET critical_count == Len(Filter(stock_df, LAMBDA x : x.STOCK_STATUS = "CRITICAL"))
           low_count      == Len(Filter(stock_df, LAMBDA x : x.STOCK_STATUS = "LOW"))
       IN  kpi' = [ critical_count |-> critical_count,
                    low_count      |-> low_count,
                    avg_days       |-> AvgDaysToStockout(stock_df),
                    total_value    |-> KpiTotalValue(stock_df),
                    \* 100 - (critical_count + low_count) / len(stock_df) * 100
                    health_score   |->
                        Divide(100 * Len(stock_df) - 100 * (critical_count + low_count),
                               Len(stock_df)) ]
    /\ pc' = "heatmap"
    /\ UNCHANGED <<pureVars, dbVars, frameVars, heatmap, alert_summary, urgent, export_log, analytics,
                   aggregated, prompt>>

ColorMetrics == {"Risk Score", "Days Until Stockout", "Critical Items %"}

\* the column the fallback pivot averages
PivotValue(x, color_metric) ==
    IF color_metric = "Risk Score" THEN x.RISK_SCORE
    ELSE IF color_metric = "Days Until Stockout" THEN x.DAYS_UNTIL_STOCKOUT
    ELSE IF x.STOCK_STATUS = "CRITICAL" THEN 100 ELSE 0

\* df.pivot_table(values, index='CATEGORY', columns='LOCATION', aggfunc='mean')
PivotTable(df, color_metric) ==
    LET cells == { <<df[i].CATEGORY, df[i].LOCATION>> : i \in 1 .. Len(df) }
    IN  [ c \in cells |->
            Mean(Filter(df, LAMBDA x : <<x.CATEGORY, x.LOCATION>> = c),
                 LAMBDA x : PivotValue(x, color_metric)) ]

\* df[column] = value(row): the frame with the column added to every row
WithColumn(df, column, Value(_)) ==
    [ i \in 1 .. Len(df) |->
        [ f \in DOMAIN df[i] \cup {column} |->
            IF f = column THEN Value(df[i]) ELSE df[i][f] ] ]

\* (CRITICAL_SKUS / TOTAL_SKUS * 100).fillna(0): 0 / 0 is NaN and is filled
\* with 0, n / 0 for n > 0 is inf and is left
CriticalPct(x) ==
    IF x.TOTAL_SKUS = 0 /\ x.CRITICAL_SKUS = 0 THEN Whole(0)
    ELSE Divide(100 * x.CRITICAL_SKUS, x.TOTAL_SKUS)

\* display_heatmap(df, heatmap_df) of components/heatmap.py, called by main
\* with the filtered snapshot and the pre-aggregated frame (or the filtered
\* snapshot again when there is none)
DisplayHeatmap ==
    /\ pc = "heatmap"
    /\ \E view_mode \in {"Location x Category", "Individual Items"},
          color_metric \in ColorMetrics :
          LET pre_aggregated == /\ Len(heatmap_df) > 0
                                /\ "AVG_RISK_SCORE" \in DOMAIN heatmap_df[1]
              critical_pct   == color_metric = "Critical Items %"
          IN  /\ heatmap' =
                    IF view_mode = "Individual Items"
                    THEN [view_mode |-> view_mode]
                    ELSE IF pre_aggregated
                    THEN [view_mode |-> view_mode, color_metric |-> color_metric,
                          source |-> "DT_CATEGORY_HEATMAP"]
                    ELSE [view_mode |-> view_mode, color_metric |-> color_metric,
                          source |-> "df", pivot_df |-> PivotTable(filtered_df, color_metric)]
              \* heatmap_df['_critical_pct'] = ...
              /\ heatmap_df' =
                    IF view_mode = "Location x Category" /\ pre_aggregated /\ critical_pct
                    THEN WithColumn(heatmap_df, "_critical_pct", CriticalPct)
                    ELSE heatmap_df
              \* df['_is_critical'] = ...
              /\ filtered_df' =
                    IF view_mode = "Location x Category" /\ ~pre_aggregated /\ critical_pct
                    THEN WithColumn(filtered_df, "_is_critical",
                                    LAMBDA x : IF x.STOCK_STATUS = "CRITICAL" THEN 100 ELSE 0)
                    ELSE filtered_df
    /\ pc' = "alerts"
    /\ UNCHANGED <<pureVars, dbVars, stock_df, alerts_df, reorder_df, priority_col, render_conn,
                   kpi, alert_summary, urgent, export_log, analytics, aggregated, prompt>>

\* the column display_alerts reads the priority from
PriorityOf(x) == IF "PRIORITY" \in DOMAIN x THEN x.PRIORITY ELSE x.STOCK_STATUS

\* priority_order of display_alerts; a priority it does not list maps to NaN
PriorityOrder(priority) ==
    IF priority = "CRITICAL" THEN 0
    ELSE IF priority = "HIGH" THEN 1
    ELSE IF priority = "MEDIUM" THEN 2
    ELSE IF priority = "LOW" THEN 3
    ELSE NoValue

\* display_alerts(alerts_df) of app.py
DisplayAlerts ==
    /\ pc = "alerts"
    /\ alert_summary' =
          IF Len(alerts_df) = 0 THEN NotShown
          ELSE [ critical     |-> Len(Filter(alerts_df, LAMBDA x : PriorityOf(x) \in {"CRITICAL", "HIGH"})),
                 medium       |-> Len(Filter(alerts_df, LAMBDA x : PriorityOf(x) = "MEDIUM")),
                 avg_stockout |-> AvgDaysToStockout(alerts_df) ]
    \* alerts_df['_sort'] = alerts_df[priority_col].map(priority_order); the
    \* sorted frame is bound to the local name only
    /\ alerts_df' = WithColumn(alerts_df, "_sort", LAMBDA x : PriorityOrder(PriorityOf(x)))
    /\ pc' = "reorder"
    /\ UNCHANGED <<pureVars, dbVars, stock_df, reorder_df, priority_col, render_conn, filtered_df, heatmap_df,
                   kpi, heatmap, urgent, export_log, analytics, aggregated, prompt>>

\* the count taken with > 8 instead of >= 8
UrgentItems_Above8(df, has_priority_score) ==
    IF has_priority_score
    THEN Len(Filter(df, LAMBDA x : x.PRIORITY_SCORE > 8))
    ELSE Len(Filter(df, LAMBDA x : 2 * x.QUANTITY_ON_HAND <= x.SAFETY_STOCK_x2))

\* the Urgent Items metric of display_reorder_list
UrgentItems(df, has_priority_score) ==
    IF has_priority_score
    THEN Len(Filter(df, LAMBDA x : x.PRIORITY_SCORE >= 8))
    ELSE Len(Filter(df, LAMBDA x : 2 * x.QUANTITY_ON_HAND <= x.SAFETY_STOCK_x2))

\* the export logged without a connection as well
LogExport_Unconnected(connected, record_count, file_format, inserted) ==
    [ calls |-> 1,
      rows  |-> IF inserted
                THEN << [export_type |-> "REORDER_LIST", record_count |-> record_count,
                         file_format |-> file_format] >>
                ELSE <<>> ]

\* if conn: try: log_export(conn, 'REORDER_LIST', len(export_df), ...) except: pass.
\* log_export inserts one row into EXPORT_LOG; when the INSERT raises it logs
\* a warning and returns
LogExport(connected, record_count, file_format, inserted) ==
    IF connected
    THEN [ calls |-> 1,
           rows  |-> IF inserted
                     THEN << [export_type |-> "REORDER_LIST", record_count |-> record_count,
                              file_format |-> file_format] >>
                     ELSE <<>> ]
    ELSE NoExport

\* the choices of st.selectbox("Format", ...) the model takes
ExportFormats == {"CSV"}

\* display_reorder_list(reorder_df, conn, ...): nothing is shown for an empty
\* list; otherwise the metrics, the export and the log of the export
DisplayReorderList ==
    /\ pc = "reorder"
    /\ urgent' = IF Len(reorder_df) = 0 THEN NotShown
                 ELSE [shown |-> TRUE, count |-> UrgentItems(reorder_df, priority_col)]
    /\ IF Len(reorder_df) = 0
       THEN export_log' = NoExport
       ELSE \E export_format \in ExportFormats, inserted \in BOOLEAN :
               export_log' = LogExport(render_conn, Len(reorder_df), export_format, inserted)
    /\ pc' = "analytics"
    /\ UNCHANGED <<pureVars, dbVars, frameVars, kpi, heatmap, alert_summary, analytics,
                   aggregated, prompt>>

\* Series.sum() of a grouped result: the sum of the values of all groups
RECURSIVE SumValues(_)
SumValues(series) ==
    IF DOMAIN series = {} THEN 0
    ELSE LET g == CHOOSE g \in DOMAIN series : TRUE
         IN  series[g] + SumValues([h \in DOMAIN series \ {g} |-> series[h]])

\* (df['UNIT_COST_USD'] * df['QUANTITY_ON_HAND']).sum()
TotalValue(df) ==
    SumSeq([i \in 1 .. Len(df) |-> df[i].UNIT_COST_USD * df[i].QUANTITY_ON_HAND])

\* display_analytics(stock_df, location_df) of components/analytics.py: the
\* Class A items at risk and the distribution of the value over the classes
\* (the percentages before .round(1))
DisplayAnalytics ==
    /\ pc = "analytics"
    /\ LET a_items     == Filter(stock_df, LAMBDA x : x.ABC_CLASS = "A")
           a_critical  == Len(Filter(a_items, LAMBDA x : x.STOCK_STATUS \in {"CRITICAL", "LOW"}))
           a_total     == Len(a_items)
           classes     == { stock_df[i].ABC_CLASS : i \in 1 .. Len(stock_df) }
           abc_value   == [ c \in classes |->
                              TotalValue(Filter(stock_df, LAMBDA x : x.ABC_CLASS = c)) ]
           total_value == SumValues(abc_value)
       IN  analytics' =
               [ a_critical_pct |-> IF a_total > 0 THEN Divide(100 * a_critical, a_total)
                                    ELSE Whole(0),
                 abc_value      |-> abc_value,
                 total_value    |-> total_value,
                 abc_value_pct  |-> [ c \in classes |-> Divide(100 * abc_value[c], total_value) ] ]
    /\ pc' = "done"
    /\ UNCHANGED <<pureVars, dbVars, frameVars, kpi, heatmap, alert_summary, urgent, export_log,
                   aggregated, prompt>>

\* COUNT(CASE WHEN STOCK_STATUS = st THEN 1 END) over the rows of a table
CountStatus(rows, st) == Len(Filter(rows, LAMBDA x : x.STOCK_STATUS = st))

\* SELECT LOCATION, critical, low, healthy FROM DT_STOCK_HEALTH GROUP BY LOCATION
\* (ORDER BY critical DESC LIMIT 10: the model has fewer than 10 locations)
LocationBreakdown(rows) ==
    LET locs == { rows[i].LOCATION : i \in 1 .. Len(rows) }
    IN  [ l \in locs |->
            LET here == Filter(rows, LAMBDA x : x.LOCATION = l)
            IN  [ critical |-> CountStatus(here, "CRITICAL"),
                  low      |-> CountStatus(here, "LOW"),
                  healthy  |-> CountStatus(here, "HEALTHY") ] ]

\* aggregate_inventory_data(conn, stock_df): the summary, ABC, location and
\* category queries run against DT_STOCK_HEALTH
AggregateInventoryData ==
    /\ pc = "load"
    /\ USE_SNOWFLAKE
    /\ conn
    /\ aggregated' =
          [ total_items            |-> Len(dt_stock_health),
            \* float(ROUND(SUM(TOTAL_INVENTORY_VALUE_USD), 2)): the sum of no row is NULL
            total_value            |->
                IF Len(dt_stock_health) = 0 THEN NoValue
                ELSE Whole(SumColumn(dt_stock_health, "TOTAL_INVENTORY_VALUE_USD")),
            stock_status_breakdown |->
                [ st \in {"CRITICAL", "LOW", "MODERATE", "HEALTHY"} |->
                    CountStatus(dt_stock_health, st) ],
            avg_days_to_stockout   |-> AvgDaysToStockout(dt_stock_health),
            location_breakdown     |-> LocationBreakdown(dt_stock_health) ]
    /\ pc' = "insights"
    /\ UNCHANGED <<pureVars, dbVars, frameVars, kpi, heatmap, alert_summary, urgent, export_log, analytics,
                   prompt>>

\* build_inventory_insights_prompt(aggregated_data): the share of each status,
\* (count / total_items * 100) if total_items > 0 else 0
BuildInventoryInsightsPrompt ==
    /\ pc = "insights"
    /\ prompt' =
          [ shown |-> TRUE,
            pct   |-> [ st \in DOMAIN aggregated.stock_status_breakdown |->
                          IF aggregated.total_items > 0
                          THEN Divide(100 * aggregated.stock_status_breakdown[st],
                                      aggregated.total_items)
                          ELSE Whole(0) ] ]
    /\ pc' = "prompted"
    /\ UNCHANGED <<pureVars, dbVars, frameVars, kpi, heatmap, alert_summary, urgent, export_log, analytics,
                   aggregated>>

\* Streamlit runs the script again from the top
Rerun ==
    /\ pc \in {"done", "nodata", "prompted"}
    /\ pc' = "load"
    /\ stock_df' = <<>>
    /\ alerts_df' = <<>>
    /\ reorder_df' = <<>>
    /\ priority_col' = FALSE
    /\ render_conn' = FALSE
    /\ filtered_df' = <<>>
    /\ heatmap_df' = <<>>
    /\ kpi' = NotShown
    /\ heatmap' = NotShown
    /\ alert_summary' = NotShown
    /\ urgent' = NotShown
    /\ export_log' = NoExport
    /\ analytics' = NotShown
    /\ aggregated' = NotShown
    /\ prompt' = NotShown
    /\ UNCHANGED <<pureVars, dbVars>>

\* the rows of DT_STOCK_HEALTH of the scenarios with one item
OneStockRow == Numbered(<< StockHealthRow("Mumbai Central", "LOW", 35, "A", 1, 1) >>)

\* the database a render starts from: none (demo mode), a stock table of
\* several items, a table of alerts, a table of reorder recommendations, or
\* a stock table of items of several classes and values
InitDashboard ==
    /\ item = NoRow
    /\ rec = NoRow
    /\ days = NotShown
    /\ NoForecast
    /\ NoMetrics
    /\ pc = "load"
    /\ NothingLoaded
    /\ \/ /\ USE_SNOWFLAKE = TRUE
          /\ conn = FALSE
          /\ dt_stock_health = <<>>
          /\ dt_active_alerts = <<>>
          /\ dt_reorder = <<>>
          /\ dt_heatmap = FALSE
       \/ /\ USE_SNOWFLAKE = FALSE
          /\ conn = TRUE
          /\ dt_stock_health = OneStockRow
          /\ dt_active_alerts = <<>>
          /\ dt_reorder = <<>>
          /\ dt_heatmap = FALSE
       \/ /\ USE_SNOWFLAKE = TRUE
          /\ conn = TRUE
          /\ dt_stock_health \in { Numbered(r) : r \in SeqsUpTo(StockHealthRows, MaxStockRows) }
          /\ dt_active_alerts = <<>>
          /\ dt_reorder = <<>>
          /\ dt_heatmap = FALSE
       \/ /\ USE_SNOWFLAKE = TRUE
          /\ conn = TRUE
          /\ dt_stock_health = OneStockRow
          /\ dt_active_alerts \in { Numbered(r) : r \in SeqsUpTo(ActiveAlertRows, MaxAlertRows) }
          /\ dt_reorder = <<>>
          /\ dt_heatmap \in BOOLEAN
       \/ /\ USE_SNOWFLAKE = TRUE
          /\ conn = TRUE
          /\ dt_stock_health = OneStockRow
          /\ dt_active_alerts = <<>>
          /\ dt_reorder \in SeqsUpTo(ReorderRows, MaxReorderRows)
          /\ dt_heatmap = TRUE
       \/ /\ USE_SNOWFLAKE = TRUE
          /\ conn = TRUE
          /\ dt_stock_health \in { Numbered(r) : r \in SeqsUpTo(ValuedRows, MaxValuedRows) }
          /\ dt_active_alerts = <<>>
          /\ dt_reorder = <<>>
          /\ dt_heatmap = FALSE

NextDashboard ==
    \/ LoadDataFromSnowflake
    \/ LoadDemoData
    \/ KpiRow
    \/ DisplayHeatmap
    \/ DisplayAlerts
    \/ DisplayReorderList
    \/ DisplayAnalytics
    \/ AggregateInventoryData
    \/ BuildInventoryInsightsPrompt
    \/ Rerun

SpecDashboard == InitDashboard /\ [][NextDashboard]_vars


(***************************************************************************)
(* calculate_stock_metrics of utils/data_processing.py, over a frame with  *)
(* the columns of generate_sample_inventory.                               *)
(***************************************************************************)
MaxSampleRows == 2

\* the status generate_sample_inventory gives a stock percentage
SampleStatus(stock_pct) ==
    IF stock_pct < 10 THEN "CRITICAL"
    ELSE IF stock_pct < 25 THEN "LOW"
    ELSE IF stock_pct < 50 THEN "MODERATE"
    ELSE "GOOD"

\* stock percentages drawn from np.random.uniform(5, 95)
SamplePcts == {5, 10, 24, 25, 50, 95}

SampleRows ==
    { [ stock_percentage |-> p, stock_status |-> SampleStatus(p) ] : p \in SamplePcts }

\* calculate_stock_metrics(df), df being the frame held in item
CalculateStockMetrics ==
    /\ pc = "metrics"
    /\ metrics' =
          [ total_items            |-> Len(item),
            critical_count         |-> Len(Filter(item, LAMBDA x : x.stock_status = "CRITICAL")),
            low_count              |-> Len(Filter(item, LAMBDA x : x.stock_status = "LOW")),
            avg_stock_percentage   |-> Mean(item, LAMBDA x : x.stock_percentage),
            items_below_25_percent |-> Len(Filter(item, LAMBDA x : x.stock_percentage < 25)) ]
    /\ pc' = "measured"
    /\ UNCHANGED <<item, rec, days, draws, forecast, sessions, generatorVars, chat, dbVars, frameVars, outputVars>>

InitMetrics ==
    /\ item \in SeqsUpTo(SampleRows, MaxSampleRows)
    /\ rec = NoRow
    /\ days = NotShown
    /\ NoForecast
    /\ NoMetrics
    /\ pc = "metrics"
    /\ NoDatabase
    /\ NothingLoaded

\* the aggregations of the program: those of a render and of the insights,
\* and the stock metrics
InitAggregation == InitDashboard \/ InitMetrics

NextAggregation == NextDashboard \/ CalculateStockMetrics

SpecAggregation == InitAggregation /\ [][NextAggregation]_vars

\* C13: given an empty collection of items, every aggregation
\* (calculate_stock_metrics, the KPI and health-score row of main,
\* aggregate_inventory_data, the percentages of the prompt builder) returns a
\* well-defined empty or zero result: it does not fail and yields no NaN.
C13_EmptyCollectionsWellDefined ==
    /\ (metrics # NotShown /\ Len(item) = 0) =>
          /\ metrics.total_items = 0
          /\ metrics.avg_stock_percentage.count > 0
    /\ (pc \in {"kpi", "heatmap", "alerts", "reorder", "analytics", "done"}) =>
          Len(stock_df) > 0
    /\ (aggregated # NotShown /\ Len(dt_stock_health) = 0) =>
          /\ aggregated.total_items = 0
          /\ aggregated.total_value # NoValue
    /\ (prompt # NotShown /\ aggregated.total_items = 0) =>
          \A st \in DOMAIN prompt.pct : prompt.pct[st] = Whole(0)

DemoLoaded == FallsBackToDemo(USE_SNOWFLAKE, conn) /\ Len(stock_df) > 0

\* the status the absolute thresholds assign (ss2 is twice the safety stock)
ThresholdStatus(q, ss2, rop) ==
    IF q <= 0 THEN "OUT_OF_STOCK"
    ELSE IF 4 * q <= ss2 THEN "CRITICAL"
    ELSE IF q <= rop THEN "LOW"
    ELSE "HEALTHY"

\* C4: stock_status is the first match of OUT_OF_STOCK (on hand <= 0),
\* CRITICAL (<= safety_stock * 0.5), LOW (<= reorder_point), else HEALTHY; an
\* item with nothing on hand is OUT_OF_STOCK and one at its reorder point is LOW.
C4_StockStatusThresholds ==
    DemoLoaded =>
        \A i \in 1 .. Len(stock_df) :
            stock_df[i].STOCK_STATUS =
                ThresholdStatus(stock_df[i].QUANTITY_ON_HAND, stock_df[i].SAFETY_STOCK_x2,
                                stock_df[i].REORDER_POINT)

\* C10: for all items risk_score lies in [0, 100].
C10_RiskScoreInRange ==
    DemoLoaded =>
        \A i \in 1 .. Len(stock_df) :
            stock_df[i].RISK_SCORE >= 0 /\ stock_df[i].RISK_SCORE <= 100

\* a generated frame holding an item of the highest and one of the lowest tier
C10_Witness ==
    /\ DemoLoaded
    /\ \E i, j \in 1 .. Len(stock_df) :
          /\ stock_df[i].QUANTITY_ON_HAND = 0
          /\ stock_df[i].RISK_SCORE = 90
          /\ stock_df[j].QUANTITY_ON_HAND = DemoQtyMax
          /\ stock_df[j].RISK_SCORE = 20

\* C11: holding reorder_point, safety_stock and avg_daily_sales fixed, a larger
\* quantity_on_hand (and hence a larger days_until_stockout) never has a larger
\* risk_score.
C11_RiskScoreMonotone ==
    DemoLoaded =>
        /\ \A i \in 1 .. Len(stock_df) : \A q2 \in 0 .. DemoQtyMax :
              q2 >= stock_df[i].QUANTITY_ON_HAND =>
                  RiskScore(q2, stock_df[i].REORDER_POINT) <= stock_df[i].RISK_SCORE
        /\ \A i, j \in 1 .. Len(stock_df) :
              (/\ stock_df[i].REORDER_POINT = stock_df[j].REORDER_POINT
               /\ stock_df[i].AVG_DAILY_SALES = stock_df[j].AVG_DAILY_SALES
               /\ stock_df[i].QUANTITY_ON_HAND <= stock_df[j].QUANTITY_ON_HAND) =>
                  stock_df[i].RISK_SCORE >= stock_df[j].RISK_SCORE

\* two generated items that differ only in the quantity on hand, one in the
\* tier of 90 and one, with more stock and more days to stockout, in the tier of 70
C11_Witness ==
    /\ DemoLoaded
    /\ \E i, j \in 1 .. Len(stock_df) :
          /\ stock_df[i].REORDER_POINT = stock_df[j].REORDER_POINT
          /\ stock_df[i].AVG_DAILY_SALES = stock_df[j].AVG_DAILY_SALES
          /\ stock_df[i].QUANTITY_ON_HAND < stock_df[j].QUANTITY_ON_HAND
          /\ stock_df[i].DAYS_UNTIL_STOCKOUT < stock_df[j].DAYS_UNTIL_STOCKOUT
          /\ stock_df[i].RISK_SCORE = 90
          /\ stock_df[j].RISK_SCORE = 70

\* the priority score of a row of the reorder list: its column when the list
\* has one, the score of the table otherwise
ScoreOf(x) ==
    IF "PRIORITY_SCORE" \in DOMAIN x THEN x.PRIORITY_SCORE
    ELSE PriorityScore(x.QUANTITY_ON_HAND, x.SAFETY_STOCK_x2, x.REORDER_POINT)

IsUrgent(x) == ScoreOf(x) >= 8 \/ 2 * x.QUANTITY_ON_HAND <= x.SAFETY_STOCK_x2

Rendering == pc \in {"kpi", "heatmap", "alerts", "reorder", "analytics", "done", "nodata"}

\* nothing of the page below the sidebar was computed
NothingComputed ==
    /\ kpi = NotShown
    /\ heatmap = NotShown
    /\ alert_summary = NotShown
    /\ urgent = NotShown
    /\ analytics = NotShown

\* C26: main falls back to demo data exactly when no Snowflake connection is
\* available (the connector import failed or get_connection returned None);
\* when a connection exists but the stock-health query fails, the query
\* returns an empty frame, there is no fallback to demo data, and the render
\* stops with 'No data available' before any KPI or tab is computed.
C26_DemoFallbackOnlyWithoutConnection ==
    Rendering =>
        /\ render_conn = FALSE <=> (~USE_SNOWFLAKE \/ ~conn)
        /\ ~render_conn =>
              /\ Len(stock_df) = DemoItems
              /\ \A i \in 1 .. Len(stock_df) : "REORDER_POINT" \in DOMAIN stock_df[i]
        /\ render_conn => stock_df \in {dt_stock_health, <<>>}
        /\ Len(stock_df) = 0 <=> pc = "nodata"
        /\ pc = "nodata" => NothingComputed

\* the table has rows, the query failed, and the render stopped
C26_Witness ==
    /\ pc = "nodata"
    /\ render_conn
    /\ Len(dt_stock_health) > 0
    /\ Len(stock_df) = 0

\* display_reorder_list has returned
ReorderListDisplayed == pc \in {"analytics", "done"}

Skus(df) == { df[i].SKU_ID : i \in 1 .. Len(df) }

\* C30: in demo mode the alert set (RISK_SCORE >= 70) is exactly the set of
\* items whose stock_status is CRITICAL or LOW, and every item of the alert
\* set is also in the reorder set (QUANTITY_ON_HAND <= REORDER_POINT).
C30_DemoAlertsAreCriticalOrLow ==
    (DemoLoaded /\ Rendering) =>
        /\ Skus(alerts_df) =
              { stock_df[i].SKU_ID : i \in { j \in 1 .. Len(stock_df) :
                                              stock_df[j].STOCK_STATUS \in {"CRITICAL", "LOW"} } }
        /\ \A i \in 1 .. Len(alerts_df) : alerts_df[i].RISK_SCORE >= 70
        /\ \A i \in 1 .. Len(stock_df) :
              stock_df[i].RISK_SCORE >= 70 => stock_df[i].SKU_ID \in Skus(alerts_df)
        /\ Skus(alerts_df) \subseteq Skus(reorder_df)
        /\ \A i \in 1 .. Len(reorder_df) :
              reorder_df[i].QUANTITY_ON_HAND <= reorder_df[i].REORDER_POINT

\* an item at its reorder point is in the reorder set and not in the alert
\* set, next to an item that is in both
C30_Witness ==
    /\ DemoLoaded
    /\ Rendering
    /\ Len(alerts_df) = 1
    /\ Len(reorder_df) = 2
    /\ \E i \in 1 .. Len(reorder_df) :
          reorder_df[i].QUANTITY_ON_HAND = reorder_df[i].REORDER_POINT

\* C12: no rate-based formula divides by zero: every division by
\* avg_daily_sales, by the average forecast demand, by an item count or by a
\* total (TOTAL_SKUS, the Class A item count, the total inventory value,
\* len(stock_df)) is guarded, for every input including zero sales, zero totals
\* and zero items.
C12_NoDivisionByZero ==
    /\ forecast # NotShown =>
          /\ forecast.demand_volatility.den > 0
          /\ forecast.predicted_days_to_stockout.den > 0
    /\ kpi # NotShown =>
          /\ kpi.health_score # DivisionByZero
          /\ kpi.total_value # DivisionByZero
    /\ \A i \in 1 .. Len(heatmap_df) :
          "_critical_pct" \in DOMAIN heatmap_df[i] =>
              heatmap_df[i]["_critical_pct"] # DivisionByZero
    /\ prompt # NotShown =>
          \A st \in DOMAIN prompt.pct : prompt.pct[st] # DivisionByZero
    /\ analytics # NotShown =>
          /\ analytics.a_critical_pct # DivisionByZero
          /\ \A c \in DOMAIN analytics.abc_value_pct :
                analytics.abc_value_pct[c] # DivisionByZero

\* the steps of a render taken by the display components
Displaying == pc \in {"heatmap", "alerts", "reorder", "analytics"}

\* C15: the snapshot is immutable within one render: no display component
\* (display_heatmap, display_alerts, display_analytics, display_reorder_list)
\* adds, removes or changes a column or a row of a frame it was handed.
C15_DisplayLeavesFramesUnchanged ==
    [][Displaying => UNCHANGED <<stock_df, filtered_df, heatmap_df, alerts_df, reorder_df>>]_vars

\* C17: the total inventory value reported for a collection of items is the
\* sum over the items of quantity_on_hand * unit_cost_usd: in the KPI row, in
\* the value distribution of the analytics and in the aggregator's summary.
C17_TotalValueIsSumOfProducts ==
    /\ kpi # NotShown =>
          kpi.total_value.num = TotalValue(stock_df) * kpi.total_value.den
    /\ analytics # NotShown => analytics.total_value = TotalValue(stock_df)
    /\ (aggregated # NotShown /\ Len(dt_stock_health) > 0) =>
          aggregated.total_value.num = TotalValue(dt_stock_health) * aggregated.total_value.den

\* the mean of the days to stockout of the rows that are not the sentinel
MeanWithoutSentinel(df) ==
    Mean(Filter(df, LAMBDA x : x.DAYS_UNTIL_STOCKOUT # SentinelTenths),
         LAMBDA x : x.DAYS_UNTIL_STOCKOUT)

\* C8: in the location breakdown of the aggregator, for every location the
\* per-status counts add up to the number of items of that location.
C8_LocationCountsAddUp ==
    aggregated # NotShown =>
        \A l \in DOMAIN aggregated.location_breakdown :
            LET b == aggregated.location_breakdown[l]
            IN  b.critical + b.low + b.healthy =
                    Cardinality({ i \in 1 .. Len(dt_stock_health) : dt_stock_health[i].LOCATION = l })

\* C9: the items whose days_until_stockout is the sentinel 999 are left out of
\* every average of days to stockout: the KPI row, the alert summary, the SQL
\* summary and the heatmap's mean per location and category.
C9_SentinelExcludedFromAverages ==
    /\ kpi # NotShown => kpi.avg_days = MeanWithoutSentinel(stock_df)
    /\ alert_summary # NotShown => alert_summary.avg_stockout = MeanWithoutSentinel(alerts_df)
    /\ aggregated # NotShown => aggregated.avg_days_to_stockout = MeanWithoutSentinel(dt_stock_health)
    /\ (/\ heatmap # NotShown
        /\ heatmap.view_mode = "Location x Category"
        /\ heatmap.source = "df"
        /\ heatmap.color_metric = "Days Until Stockout") =>
           \A c \in DOMAIN heatmap.pivot_df :
               heatmap.pivot_df[c] =
                   MeanWithoutSentinel(Filter(filtered_df, LAMBDA x : <<x.CATEGORY, x.LOCATION>> = c))


(***************************************************************************)
(* days_until_stockout of one item, as the three generators compute it:    *)
(* load_demo_data of app.py rounds to one decimal (scale 10);              *)
(* generate_sample_inventory and generate_inventory_data round to two      *)
(* decimals (scale 100).                                                   *)
(***************************************************************************)
MaxStockQty   == 30
MaxDailySales == 20

StockoutItems ==
    { [ QUANTITY_ON_HAND |-> q, AVG_DAILY_SALES |-> a, scale |-> sc ] :
      q \in 0 .. MaxStockQty, a \in 0 .. MaxDailySales, sc \in {10, 100} }

ComputeDaysUntilStockout ==
    /\ pc = "stockout"
    /\ \E v \in DaysUntilStockout(item.QUANTITY_ON_HAND, item.AVG_DAILY_SALES, item.scale) :
          days' = [value |-> v, scale |-> item.scale]
    /\ pc' = "computed"
    /\ UNCHANGED <<item, rec, draws, forecast, dbVars, frameVars, outputVars, metrics, sessions, generatorVars, chat>>

InitStockout ==
    /\ item \in StockoutItems
    /\ rec = NoRow
    /\ days = NotShown
    /\ NoForecast
    /\ NoMetrics
    /\ pc = "stockout"
    /\ NoDatabase
    /\ NothingLoaded

NextStockout == ComputeDaysUntilStockout

SpecStockout == InitStockout /\ [][NextStockout]_vars

Computed == pc = "computed"

\* C5 as stated: for avg_daily_sales > 0, days_until_stockout is exactly
\* quantity_on_hand / avg_daily_sales (no rounding), and for avg_daily_sales = 0
\* it is the sentinel 999.
C5_DaysExactQuotient ==
    Computed =>
        /\ item.AVG_DAILY_SALES > 0 =>
              days.value * item.AVG_DAILY_SALES = days.scale * item.QUANTITY_ON_HAND
        /\ item.AVG_DAILY_SALES = 0 => days.value = days.scale * Sentinel

\* C5 (amended): for avg_daily_sales > 0, days_until_stockout is
\* quantity_on_hand / avg_daily_sales rounded to the nearest 0.1 (app.py) or
\* 0.01 (the sample generators), hence the quotient itself only when the
\* quotient has no further decimals; for avg_daily_sales = 0 it is 999.
C5_DaysRoundedQuotient ==
    Computed =>
        LET a     == item.AVG_DAILY_SALES
            exact == days.scale * item.QUANTITY_ON_HAND
            diff  == days.value * a - exact
        IN  /\ a > 0 => /\ 2 * diff <= a
                        /\ 2 * diff >= -a
                        /\ (exact % a = 0) => diff = 0
            /\ a = 0 => days.value = days.scale * Sentinel

\* a quotient with further decimals was rounded: 0.1 * value differs from it
C5_Witness ==
    /\ Computed
    /\ item.AVG_DAILY_SALES > 0
    /\ item.scale = 10
    /\ days.value * item.AVG_DAILY_SALES > days.scale * item.QUANTITY_ON_HAND


(***************************************************************************)
(* DemandForecaster: generate_forecast_data of components/forecasting.py,  *)
(* for one row of the frame.  Real numbers are held as fractions           *)
(* [num, den] with den > 0.                                                *)
(***************************************************************************)
ForecastHorizonDays == 14

MaxSample        == 2
MaxForecastStock == 15
MaxForecastSales == 1

\* row.get(field, default)
Get(row, field, default) == IF field \in DOMAIN row THEN row[field] ELSE default

Clamp(lo, hi, x) == Min(hi, Max(lo, x))

\* the buckets cut with <= instead of <
StockoutRisk_Inclusive(days_to_stockout) ==
    IF LessEq(days_to_stockout, Whole(7)) THEN "HIGH RISK"
    ELSE IF LessEq(days_to_stockout, Whole(14)) THEN "MODERATE RISK"
    ELSE "LOW RISK"

\* HIGH RISK below 7 days, MODERATE RISK below 14, else LOW RISK
StockoutRisk(days_to_stockout) ==
    IF Less(days_to_stockout, Whole(7)) THEN "HIGH RISK"
    ELSE IF Less(days_to_stockout, Whole(14)) THEN "MODERATE RISK"
    ELSE "LOW RISK"

\* np.maximum(samples, 0).sum()
RECURSIVE ClippedSum(_)
ClippedSum(samples) ==
    IF Len(samples) = 0 THEN 0
    ELSE Max(Head(samples), 0) + ClippedSum(Tail(samples))

\* the rate used as it is read
DailySales_NoFloor(sales) == sales

\* if daily_sales <= 0: daily_sales = 1
DailySales(sales) == IF sales <= 0 THEN 1 ELSE sales

\* the volatility without the cap at 0.3
DemandVolatility_NoCap(current_stock, daily_sales) ==
    IF daily_sales > 0
    THEN Frac(Max(60 * daily_sales, current_stock), 600 * daily_sales)
    ELSE Frac(15, 100)

\* min(0.3, max(0.1, (current_stock / (daily_sales * 30)) * 0.05)) if daily_sales > 0
\* else 0.15: current_stock / (600 * daily_sales) between 60/600 and 180/600
DemandVolatility(current_stock, daily_sales) ==
    IF daily_sales > 0
    THEN Frac(Clamp(60 * daily_sales, 180 * daily_sales, current_stock), 600 * daily_sales)
    ELSE Frac(15, 100)

\* the quotient taken whatever the average demand is
DaysToStockout_NoGuard(current_stock, total_forecasted_demand, forecast_horizon_days) ==
    Frac(current_stock * forecast_horizon_days, total_forecasted_demand)

\* current_stock / avg_forecasted_daily_demand if avg_forecasted_daily_demand > 0
\* else 999, the average being total_forecasted_demand / forecast_horizon_days
DaysToStockout(current_stock, total_forecasted_demand, forecast_horizon_days) ==
    IF total_forecasted_demand > 0
    THEN Frac(current_stock * forecast_horizon_days, total_forecasted_demand)
    ELSE Whole(Sentinel)

\* the penalty applied at the safety stock as well
LowStockPenalty_Inclusive(current_stock, safety_stock) ==
    IF current_stock <= safety_stock THEN 10 ELSE 0

\* 10 if current_stock < safety_stock else 0
LowStockPenalty(current_stock, safety_stock) ==
    IF current_stock < safety_stock THEN 10 ELSE 0

\* max(60, min(95, 85 - demand_volatility * 50 - low_stock_penalty)), over the
\* denominator of the volatility
ModelAccuracy(demand_volatility, low_stock_penalty) ==
    LET den == demand_volatility.den
    IN  Frac(Clamp(60 * den, 95 * den, (85 - low_stock_penalty) * den - 50 * demand_volatility.num),
             den)

\* the forecast record of one row, given the samples np.random.normal drew
\* the stock left, not floored at zero
PredictedStock_NoFloor(current_stock, total_forecasted_demand) ==
    current_stock - total_forecasted_demand

\* predicted_stock = max(0, current_stock - total_forecasted_demand)
PredictedStock(current_stock, total_forecasted_demand) ==
    Max(0, current_stock - total_forecasted_demand)

ForecastRecord(row, samples, forecast_horizon_days) ==
    LET current_stock == Get(row, "QUANTITY_ON_HAND", 0)
        daily_sales   == DailySales(Get(row, "AVG_DAILY_SALES", 5))
        safety_stock  == Get(row, "SAFETY_STOCK", 0)
        demand_volatility == DemandVolatility(current_stock, daily_sales)
        total_forecasted_demand     == ClippedSum(samples)
        avg_forecasted_daily_demand == Frac(total_forecasted_demand, forecast_horizon_days)
        days_to_stockout ==
            DaysToStockout(current_stock, total_forecasted_demand, forecast_horizon_days)
        low_stock_penalty == LowStockPenalty(current_stock, safety_stock)
    IN  [ current_stock              |-> current_stock,
          predicted_stock            |-> PredictedStock(current_stock, total_forecasted_demand),
          predicted_consumption      |-> avg_forecasted_daily_demand,
          predicted_days_to_stockout |-> days_to_stockout,
          model_accuracy             |-> ModelAccuracy(demand_volatility, low_stock_penalty),
          forecast_horizon_days      |-> forecast_horizon_days,
          confidence_interval_lower  |-> Frac(85 * total_forecasted_demand, 100 * forecast_horizon_days),
          confidence_interval_upper  |-> Frac(115 * total_forecasted_demand, 100 * forecast_horizon_days),
          stockout_risk              |-> StockoutRisk(days_to_stockout),
          demand_volatility          |-> demand_volatility ]

\* the rows handed to the forecaster; a missing column is a missing field
ForecastStockVals == {-1, 0, 7, 8, 14, MaxForecastStock, 60, 100, 180, 200}
ForecastRows ==
    LET full == { [ QUANTITY_ON_HAND |-> q, AVG_DAILY_SALES |-> a, SAFETY_STOCK |-> ss ] :
                  q \in ForecastStockVals, a \in 0 .. MaxForecastSales, ss \in {0, 8} }
        cols == { {"QUANTITY_ON_HAND", "AVG_DAILY_SALES", "SAFETY_STOCK"},
                  {"QUANTITY_ON_HAND", "SAFETY_STOCK"},
                  {"AVG_DAILY_SALES"} }
    IN  { [f \in c |-> r[f]] : r \in full, c \in cols }

\* the samples, in ascending order (only their sum and mean are used):
\* n samples, none below lo
RECURSIVE SortedSamples(_, _)
SortedSamples(n, lo) ==
    IF n = 0 THEN {<<>>}
    ELSE UNION { { <<v>> \o rest : rest \in SortedSamples(n - 1, v) } : v \in lo .. MaxSample }

GenerateForecastData ==
    /\ pc = "forecast"
    /\ \E samples \in SortedSamples(ForecastHorizonDays, -1) :
          /\ draws' = samples
          /\ forecast' = ForecastRecord(item, samples, ForecastHorizonDays)
    /\ pc' = "forecasted"
    /\ UNCHANGED <<item, rec, days, dbVars, frameVars, outputVars, metrics, sessions, generatorVars, chat>>

InitForecast ==
    /\ item \in ForecastRows
    /\ rec = NoRow
    /\ days = NotShown
    /\ NoForecast
    /\ NoMetrics
    /\ pc = "forecast"
    /\ NoDatabase
    /\ NothingLoaded

NextForecast == GenerateForecastData

SpecForecast == InitForecast /\ [][NextForecast]_vars

Forecasted == pc = "forecasted"

\* C7: the bucket of stockout_risk follows strict thresholds on
\* predicted_days_to_stockout: HIGH below 7, MODERATE from 7 to below 14, LOW
\* from 14 on; each value falls in exactly one bucket.
C7_StockoutRiskBuckets ==
    Forecasted =>
        LET d == forecast.predicted_days_to_stockout
            r == forecast.stockout_risk
        IN  /\ r \in {"HIGH RISK", "MODERATE RISK", "LOW RISK"}
            /\ (r = "HIGH RISK") <=> (d.num < 7 * d.den)
            /\ (r = "MODERATE RISK") <=> (d.num >= 7 * d.den /\ d.num < 14 * d.den)
            /\ (r = "LOW RISK") <=> (d.num >= 14 * d.den)

\* a forecast of exactly 7 days to stockout fell into MODERATE RISK
C7_Witness ==
    /\ Forecasted
    /\ forecast.predicted_days_to_stockout.num = 7 * forecast.predicted_days_to_stockout.den
    /\ forecast.stockout_risk = "MODERATE RISK"

\* the inputs of the forecast of the row: the field, or its documented
\* default when the row has no such field; the rate floored to 1
RowStock  == IF "QUANTITY_ON_HAND" \in DOMAIN item THEN item.QUANTITY_ON_HAND ELSE 0
RowSafety == IF "SAFETY_STOCK" \in DOMAIN item THEN item.SAFETY_STOCK ELSE 0
RowSales  == IF "AVG_DAILY_SALES" \in DOMAIN item THEN item.AVG_DAILY_SALES ELSE 5
RowRate   == IF RowSales <= 0 THEN 1 ELSE RowSales

C18_AvgDemandPositive ==
    Forecasted =>
        LET avg == forecast.predicted_consumption
            d   == forecast.predicted_days_to_stockout
        IN  /\ avg.num > 0
            /\ d.num * avg.num = RowStock * avg.den * d.den

\* C18 (amended): the average forecast daily demand is >= 0; when it is > 0,
\* predicted_days_to_stockout equals quantity_on_hand divided by it; when
\* every sample was clipped to 0 it is 0 and predicted_days_to_stockout is
\* the sentinel 999.
C18_DaysToStockoutGuarded ==
    Forecasted =>
        LET avg == forecast.predicted_consumption
            d   == forecast.predicted_days_to_stockout
        IN  /\ avg.num >= 0 /\ avg.den > 0 /\ d.den > 0
            /\ avg.num > 0 => d.num * avg.num = RowStock * avg.den * d.den
            /\ avg.num = 0 => d = Whole(Sentinel)
            /\ (avg.num = 0) <=> (\A i \in 1 .. Len(draws) : draws[i] <= 0)

\* every sample drawn was <= 0, one below 0: the average demand is 0 and the
\* days to stockout are the sentinel
C18_Witness ==
    /\ Forecasted
    /\ draws[1] < 0
    /\ RowStock > 0
    /\ forecast.predicted_consumption.num = 0
    /\ forecast.predicted_days_to_stockout = Whole(Sentinel)

\* C19: for every item, quantity_on_hand <= 0 and very large quantities
\* included, the demand volatility lies in [0.10, 0.30] and equals
\* (quantity_on_hand / (mu * 30)) * 0.05 clamped to that interval, mu being
\* avg_daily_sales floored to 1.
C19_DemandVolatilityClamped ==
    Forecasted =>
        LET v == forecast.demand_volatility
        IN  /\ v.den > 0
            /\ 10 * v.num >= v.den
            /\ 10 * v.num <= 3 * v.den
            /\ RowStock < 60 * RowRate => 10 * v.num = v.den
            /\ RowStock > 180 * RowRate => 10 * v.num = 3 * v.den
            /\ (RowStock >= 60 * RowRate /\ RowStock <= 180 * RowRate) =>
                  v.num * 600 * RowRate = RowStock * v.den

\* a quantity above 180 days of sales was forecast: the cap at 0.30 acted
C19_Witness ==
    /\ Forecasted
    /\ RowStock > 180 * RowRate
    /\ forecast.demand_volatility.num * 10 = 3 * forecast.demand_volatility.den

\* C20: model_accuracy lies in [60, 95] and equals 85 - v * 50 - (10 if
\* quantity_on_hand < safety_stock else 0) clamped to that interval; the
\* penalty applies exactly when quantity_on_hand is strictly below safety_stock.
C20_ModelAccuracyClamped ==
    Forecasted =>
        LET v       == forecast.demand_volatility
            acc     == forecast.model_accuracy
            penalty == IF RowStock < RowSafety THEN 10 ELSE 0
            raw     == (85 - penalty) * v.den - 50 * v.num
        IN  /\ acc.den > 0
            /\ acc.num >= 60 * acc.den
            /\ acc.num <= 95 * acc.den
            /\ acc.num * v.den = Clamp(60 * v.den, 95 * v.den, raw) * acc.den

\* a quantity equal to the safety stock was forecast without the penalty
\* (accuracy 85 - 0.1 * 50 = 80)
C20_Witness ==
    /\ Forecasted
    /\ RowStock = RowSafety
    /\ RowSafety > 0
    /\ forecast.model_accuracy.num = 80 * forecast.model_accuracy.den

\* the demand forecast over the horizon: the samples, none counted below zero
PredictedDemand(samples) == SumSeq([i \in 1 .. Len(samples) |-> Max(samples[i], 0)])

\* C25: with the default horizon of 14 days, every item whose stockout_risk is
\* HIGH RISK or MODERATE RISK has predicted_stock = 0, and every item with
\* predicted_stock > 0 has stockout_risk LOW RISK (the total forecast demand
\* being 14 times the average forecast daily demand).
C25_RiskMeansNoPredictedStock ==
    Forecasted =>
        /\ forecast.forecast_horizon_days = 14
        /\ forecast.predicted_consumption.num =
              PredictedDemand(draws) * (forecast.predicted_consumption.den \div 14)
        /\ forecast.stockout_risk \in {"HIGH RISK", "MODERATE RISK"} => forecast.predicted_stock = 0
        /\ forecast.predicted_stock > 0 => forecast.stockout_risk = "LOW RISK"

\* an item in stock whose forecast demand exceeds the stock within the horizon
C25_Witness ==
    /\ Forecasted
    /\ forecast.current_stock > 0
    /\ forecast.stockout_risk = "MODERATE RISK"
    /\ forecast.predicted_stock = 0

(***************************************************************************)
(* Two browser sessions rendering at once.  Streamlit runs the script of   *)
(* each session in a thread of its own within one process: what a module   *)
(* or a cache holds is shared by the sessions, what main binds is not.     *)
(***************************************************************************)
Sessions == {1, 2}

\* draws taken from each process-wide generator
MaxDraws == 3

NoConnection == [kind |-> "unset", id |-> 0]

\* what the cache of get_connection holds: nothing yet, the None of a failed
\* connect, or the connection the session id opened
CacheEmpty == [kind |-> "empty", id |-> 0]
CachedNone == [kind |-> "None", id |-> 0]
Connection(id) == [kind |-> "connection", id |-> id]

NoFrame == [owner |-> 0, source |-> "none", position |-> 0]

FreshRun == [ pc |-> "start", conn |-> NoConnection, stock_df |-> NoFrame,
              filtered_df |-> NoFrame, draws |-> 0, position |-> 0 ]

\* everything but the sessions
renderVars == <<item, rec, days, draws, forecast, metrics, generatorVars, chat, pc, dbVars, frameVars, outputVars>>

\* get_connection(), @st.cache_resource: the first call of the process
\* connects and the result, a connection or None, is cached; every later
\* call of any session returns the cached object
GetConnection(s) ==
    /\ sessions.started
    /\ sessions.run[s].pc = "start"
    /\ \E ok \in BOOLEAN :
          LET cached == IF sessions.cache = CacheEmpty
                        THEN (IF ok THEN Connection(s) ELSE CachedNone)
                        ELSE sessions.cache
          IN  sessions' = [sessions EXCEPT !.cache = cached,
                                           !.run[s].conn = cached,
                                           !.run[s].pc = "connected"]
    /\ UNCHANGED renderVars

\* load_data_from_snowflake: the queries return new frames; without a
\* connection load_demo_data draws the frame from the generator of the
\* module random
LoadSnapshot(s) ==
    /\ sessions.started
    /\ sessions.run[s].pc = "connected"
    /\ IF sessions.run[s].conn.kind = "connection"
       THEN sessions' = [sessions EXCEPT
                !.run[s].stock_df = [owner |-> s, source |-> "DT_STOCK_HEALTH", position |-> 0],
                !.run[s].pc = "loaded"]
       ELSE /\ sessions.py_random < MaxDraws
            /\ sessions' = [sessions EXCEPT
                !.run[s].stock_df = [owner |-> s, source |-> "demo",
                                     position |-> sessions.py_random],
                !.py_random = @ + 1,
                !.run[s].pc = "loaded"]
    /\ UNCHANGED renderVars

\* filtered_df = stock_df.copy()
CopySnapshot(s) ==
    /\ sessions.started
    /\ sessions.run[s].pc = "loaded"
    /\ sessions' = [sessions EXCEPT
            !.run[s].filtered_df = [sessions.run[s].stock_df EXCEPT !.owner = s],
            !.run[s].pc = "filtered"]
    /\ UNCHANGED renderVars

\* generate_forecast_data: np.random.normal draws from the generator of the
\* module numpy.random and advances it
DrawSamples(s) ==
    /\ sessions.started
    /\ sessions.run[s].pc = "filtered"
    /\ sessions.np_random < MaxDraws
    /\ sessions' = [sessions EXCEPT
            !.run[s].position = sessions.np_random,
            !.run[s].draws = @ + 1,
            !.np_random = @ + 1,
            !.run[s].pc = "forecasted"]
    /\ UNCHANGED renderVars

\* the script of the session runs again; what main had bound is dropped
RerunSession(s) ==
    /\ sessions.started
    /\ sessions.run[s].pc = "forecasted"
    /\ sessions' = [sessions EXCEPT
            !.run[s] = [FreshRun EXCEPT !.draws = sessions.run[s].draws]]
    /\ UNCHANGED renderVars

InitConcurrent ==
    /\ item = NoRow
    /\ rec = NoRow
    /\ days = NotShown
    /\ NoForecast
    /\ metrics = NotShown
    /\ chat = NoChat
    /\ NothingGenerated
    /\ sessions = [ started |-> TRUE, cache |-> CacheEmpty, np_random |-> 0, py_random |-> 0,
                    run |-> [s \in Sessions |-> FreshRun] ]
    /\ pc = "sessions"
    /\ NoDatabase
    /\ NothingLoaded

NextConcurrent ==
    \E s \in Sessions :
        \/ GetConnection(s)
        \/ LoadSnapshot(s)
        \/ CopySnapshot(s)
        \/ DrawSamples(s)
        \/ RerunSession(s)

SpecConcurrent == InitConcurrent /\ [][NextConcurrent]_vars

\* C16: two renders running concurrently share no mutable state: each has its
\* own copy of the snapshot, its own connection handle and its own random
\* source, so what one render draws does not depend on the other.
C16_RendersShareNothing ==
    \A s \in Sessions :
        LET own == sessions.run[s]
        IN  /\ own.filtered_df.owner \in {0, s}
            /\ own.stock_df.owner \in {0, s}
            /\ own.conn.kind = "connection" => own.conn.id = s
            /\ own.pc = "forecasted" => own.position = own.draws - 1

(***************************************************************************)
(* The sample data generators: generate_inventory_data and                 *)
(* generate_alert_history of data/generate_sample_data.py, whose CSV files *)
(* load_demo_data of utils/data_processing.py reads, and                   *)
(* generate_sample_inventory of utils/data_processing.py.                  *)
(* A stock_percentage is held in hundredths of a percent (the generators   *)
(* round it to two decimals), the stock_pct drawn by                       *)
(* generate_sample_inventory in thousandths of a percent.                  *)
(***************************************************************************)
BaseStockMin == 100
BaseStockMax == 1000

\* simulated days per item (num_days) and items of generate_sample_inventory
NumDays == 3
SampleItemCount == 1

BaseStockVals == {BaseStockMin, 103, BaseStockMax}

GeneratorCategories == {"medicines", "food", "supplies"}

\* int(random.randint(a, b) * random.uniform(0.7, 1.3)): the least, a middle
\* and the greatest value per category
ConsumptionVals(category) ==
    IF category = "medicines" THEN {3, 25, 39}
    ELSE IF category = "food" THEN {7, 35, 65}
    ELSE {2, 14, 32}

\* a reorder point of a twentieth of the base stock
ReorderPointOf_Twentieth(base_stock) == base_stock \div 20

\* int(base_stock * 0.25) and int(base_stock * 1.5)
ReorderPointOf(base_stock) == base_stock \div 4
MaxStockOf(base_stock) == (3 * base_stock) \div 2

\* restocking at the reorder point already
Restocked_AtOrBelow(current_stock, reorder_point) == current_stock <= reorder_point

\* if current_stock < reorder_point, current_stock being the stock after the
\* day's consumption
Restocked(current_stock, reorder_point) == current_stock < reorder_point

\* no restocking
RestockAmount_None(restocked, current_stock, max_stock) == 0

\* restock_amount = max_stock - current_stock when restocking, else 0
RestockAmount(restocked, current_stock, max_stock) ==
    IF restocked THEN max_stock - current_stock ELSE 0

\* the thresholds taken inclusively
InventoryStatus_Inclusive(current_stock, max_stock) ==
    IF 100 * current_stock <= 10 * max_stock THEN "CRITICAL"
    ELSE IF 100 * current_stock <= 25 * max_stock THEN "LOW"
    ELSE IF 100 * current_stock <= 50 * max_stock THEN "MODERATE"
    ELSE "GOOD"

\* generate_inventory_data: the status of stock_percentage =
\* (current_stock / max_stock) * 100, before it is rounded
InventoryStatus(current_stock, max_stock) ==
    IF 100 * current_stock < 10 * max_stock THEN "CRITICAL"
    ELSE IF 100 * current_stock < 25 * max_stock THEN "LOW"
    ELSE IF 100 * current_stock < 50 * max_stock THEN "MODERATE"
    ELSE "GOOD"

\* generate_sample_inventory: the status of the stock_pct drawn (thousandths
\* of a percent), before it is rounded
SampleInventoryStatus(stock_pct) ==
    IF stock_pct < 10 * 1000 THEN "CRITICAL"
    ELSE IF stock_pct < 25 * 1000 THEN "LOW"
    ELSE IF stock_pct < 50 * 1000 THEN "MODERATE"
    ELSE "GOOD"

\* one day of one item in generate_inventory_data: consume, restock when
\* below the reorder point, clamp, classify, record
SimulateDay ==
    /\ pc = "generator"
    /\ inventory_data.day < NumDays
    /\ \E consumption \in ConsumptionVals(inventory_data.category) :
          LET reorder_point  == ReorderPointOf(inventory_data.base_stock)
              max_stock      == MaxStockOf(inventory_data.base_stock)
              consumed       == inventory_data.current_stock - consumption
              restocked      == Restocked(consumed, reorder_point)
              restock_amount == RestockAmount(restocked, consumed, max_stock)
              current_stock  == Max(0, consumed + restock_amount)
          IN  \E stock_percentage \in RoundQuotient(100 * current_stock, max_stock, 100) :
                inventory_data' =
                    [inventory_data EXCEPT
                        !.current_stock = current_stock,
                        !.day = @ + 1,
                        !.records = Append(@,
                            [ day              |-> inventory_data.day,
                              current_stock    |-> current_stock,
                              consumption      |-> consumption,
                              restock_amount   |-> restock_amount,
                              restocked        |-> restocked,
                              reorder_point    |-> reorder_point,
                              max_stock        |-> max_stock,
                              stock_status     |-> InventoryStatus(current_stock, max_stock),
                              stock_percentage |-> stock_percentage ])]
    /\ UNCHANGED <<sample_inventory, alert_history>>
    /\ UNCHANGED <<item, rec, days, draws, forecast, metrics, sessions, chat, pc, dbVars, frameVars, outputVars>>

\* np.random.uniform(5, 95), in thousandths of a percent
SampleStockPcts == {5000, 9996, 10000, 23333, 24996, 25000, 50000, 94999}

\* np.random.randint(500, 1500)
SampleMaxStocks == {500}

\* one item of generate_sample_inventory
GenerateSampleInventory ==
    /\ pc = "generator"
    /\ Len(sample_inventory) < SampleItemCount
    /\ \E stock_pct \in SampleStockPcts, max_stock \in SampleMaxStocks :
          \E stock_percentage \in RoundQuotient(stock_pct, 1000, 100) :
             sample_inventory' = Append(sample_inventory,
                 [ current_stock    |-> (max_stock * stock_pct) \div (100 * 1000),
                   max_stock        |-> max_stock,
                   stock_pct        |-> stock_pct,
                   stock_percentage |-> stock_percentage,
                   stock_status     |-> SampleInventoryStatus(stock_pct) ])
    /\ UNCHANGED <<inventory_data, alert_history>>
    /\ UNCHANGED <<item, rec, days, draws, forecast, metrics, sessions, chat, pc, dbVars, frameVars, outputVars>>

\* a boolean column written by to_csv and read back by read_csv
ToCsv(b) == IF b THEN "True" ELSE "False"
ReadCsv(cell) == cell = "True"

\* the alert generate_alert_history makes of a record
AlertOf(row) ==
    [ alert_date    |-> row.day,
      current_stock |-> row.current_stock,
      alert_type    |-> row.stock_status,
      resolved      |-> row.restocked,
      priority      |-> IF row.stock_status = "CRITICAL" THEN "HIGH" ELSE "MEDIUM" ]

\* generate_alert_history(inventory_df), once every day is recorded
GenerateAlertHistory ==
    /\ pc = "generator"
    /\ inventory_data.day = NumDays
    /\ alert_history = NotShown
    /\ LET critical_records ==
               Filter(inventory_data.records, LAMBDA x : x.stock_status \in {"CRITICAL", "LOW"})
       IN  alert_history' =
               [ shown      |-> TRUE,
                 alerts     |-> [i \in 1 .. Len(critical_records) |-> AlertOf(critical_records[i])],
                 loaded     |-> FALSE,
                 unresolved |-> <<>> ]
    /\ UNCHANGED <<inventory_data, sample_inventory>>
    /\ UNCHANGED <<item, rec, days, draws, forecast, metrics, sessions, chat, pc, dbVars, frameVars, outputVars>>

\* load_demo_data of utils/data_processing.py, the CSV files being there:
\* all_alerts[all_alerts['resolved'] == False]
LoadDemoDataFromCsv ==
    /\ pc = "generator"
    /\ alert_history # NotShown
    /\ ~alert_history.loaded
    /\ LET all_alerts == [i \in 1 .. Len(alert_history.alerts) |->
                            [alert_history.alerts[i] EXCEPT !.resolved = ReadCsv(ToCsv(@))]]
       IN  alert_history' =
               [alert_history EXCEPT
                   !.loaded = TRUE,
                   !.unresolved = Filter(all_alerts, LAMBDA x : x.resolved = FALSE)]
    /\ UNCHANGED <<inventory_data, sample_inventory>>
    /\ UNCHANGED <<item, rec, days, draws, forecast, metrics, sessions, chat, pc, dbVars, frameVars, outputVars>>

InitGenerator ==
    /\ item = NoRow
    /\ rec = NoRow
    /\ days = NotShown
    /\ NoForecast
    /\ metrics = NotShown
    /\ chat = NoChat
    /\ sessions = NoSessions
    /\ \E base_stock \in BaseStockVals, category \in GeneratorCategories :
          inventory_data = [ base_stock    |-> base_stock,
                             category      |-> category,
                             current_stock |-> base_stock,
                             day           |-> 0,
                             records       |-> <<>> ]
    /\ sample_inventory = <<>>
    /\ alert_history = NotShown
    /\ pc = "generator"
    /\ NoDatabase
    /\ NothingLoaded

NextGenerator ==
    \/ SimulateDay
    \/ GenerateSampleInventory
    \/ GenerateAlertHistory
    \/ LoadDemoDataFromCsv

SpecGenerator == InitGenerator /\ [][NextGenerator]_vars

\* the records of generate_inventory_data so far
Records == inventory_data.records

\* the stock before the day of record i
StockBefore(i) == IF i = 1 THEN inventory_data.base_stock ELSE Records[i - 1].current_stock

\* first match on a stock_percentage as recorded (hundredths of a percent)
FirstMatch(stock_percentage) ==
    IF stock_percentage < 1000 THEN "CRITICAL"
    ELSE IF stock_percentage < 2500 THEN "LOW"
    ELSE IF stock_percentage < 5000 THEN "MODERATE"
    ELSE "GOOD"

\* C21 as stated: every record has the status first match gives its
\* stock_percentage (CRITICAL < 10, LOW < 25, MODERATE < 50, else GOOD), and
\* generate_sample_inventory and generate_inventory_data give the same
\* stock_percentage the same status.
C21_StatusByStockPercentage ==
    /\ \A i \in 1 .. Len(Records) :
          Records[i].stock_status = FirstMatch(Records[i].stock_percentage)
    /\ \A j \in 1 .. Len(sample_inventory) :
          sample_inventory[j].stock_status = FirstMatch(sample_inventory[j].stock_percentage)
    /\ \A i \in 1 .. Len(Records), j \in 1 .. Len(sample_inventory) :
          Records[i].stock_percentage = sample_inventory[j].stock_percentage
             => Records[i].stock_status = sample_inventory[j].stock_status

\* C21 (amended): the status is first match on the percentage before it is
\* rounded: current_stock / max_stock * 100 in generate_inventory_data, the
\* stock_pct drawn in generate_sample_inventory; the two generators give the
\* same unrounded percentage the same status, and the stock_percentage
\* recorded is that percentage rounded to two decimals.
C21_StatusByUnroundedPercentage ==
    /\ \A i \in 1 .. Len(Records) :
          LET r   == Records[i]
              pct == 100 * r.current_stock
          IN  /\ r.stock_status = "CRITICAL" <=> pct < 10 * r.max_stock
              /\ r.stock_status = "LOW" <=> (pct >= 10 * r.max_stock /\ pct < 25 * r.max_stock)
              /\ r.stock_status = "MODERATE" <=> (pct >= 25 * r.max_stock /\ pct < 50 * r.max_stock)
              /\ r.stock_status = "GOOD" <=> pct >= 50 * r.max_stock
              /\ 2 * (r.stock_percentage * r.max_stock - 100 * pct) <= r.max_stock
              /\ 2 * (100 * pct - r.stock_percentage * r.max_stock) <= r.max_stock
    /\ \A j \in 1 .. Len(sample_inventory) :
          LET x == sample_inventory[j]
          IN  /\ x.stock_status = "CRITICAL" <=> x.stock_pct < 10000
              /\ x.stock_status = "LOW" <=> (x.stock_pct >= 10000 /\ x.stock_pct < 25000)
              /\ x.stock_status = "MODERATE" <=> (x.stock_pct >= 25000 /\ x.stock_pct < 50000)
              /\ x.stock_status = "GOOD" <=> x.stock_pct >= 50000
              /\ 10 * x.stock_percentage - x.stock_pct \in -5 .. 5
    /\ \A i \in 1 .. Len(Records), j \in 1 .. Len(sample_inventory) :
          100000 * Records[i].current_stock = sample_inventory[j].stock_pct * Records[i].max_stock
             => Records[i].stock_status = sample_inventory[j].stock_status

\* a stock_pct just below 10 is recorded as 10.0 with the status CRITICAL,
\* and a record of generate_inventory_data at exactly 50 percent is GOOD
C21_Witness ==
    /\ \E j \in 1 .. Len(sample_inventory) :
          /\ sample_inventory[j].stock_pct = 9996
          /\ sample_inventory[j].stock_percentage = 1000
          /\ sample_inventory[j].stock_status = "CRITICAL"
    /\ \E i \in 1 .. Len(Records) :
          /\ 100 * Records[i].current_stock = 50 * Records[i].max_stock
          /\ Records[i].stock_status = "GOOD"

\* C22: for every item and after every simulated day of
\* generate_inventory_data, reorder_point <= current_stock <= max_stock; the
\* stock is never negative, so max(0, current_stock) never changes it.
C22_StockWithinBounds ==
    inventory_data # NoRow =>
        /\ \A i \in 1 .. Len(Records) :
              LET r == Records[i]
              IN  /\ r.reorder_point <= r.current_stock
                  /\ r.current_stock <= r.max_stock
                  /\ r.current_stock >= 0
                  /\ r.current_stock = StockBefore(i) - r.consumption + r.restock_amount
        /\ inventory_data.current_stock <= MaxStockOf(inventory_data.base_stock)
        /\ Len(Records) > 0 =>
              inventory_data.current_stock >= ReorderPointOf(inventory_data.base_stock)

\* a day that ran the stock below zero and restocked it, after a day that
\* only consumed
C22_Witness ==
    /\ inventory_data # NoRow
    /\ \E i \in 2 .. Len(Records) :
          /\ StockBefore(i) - Records[i].consumption < 0
          /\ Records[i].restocked
          /\ ~Records[i - 1].restocked
          /\ Records[i - 1].current_stock < StockBefore(i - 1)

\* whatever the base_stock, the stock at the reorder point is not CRITICAL
AboveCriticalAtReorderPoint ==
    \A base_stock \in BaseStockMin .. BaseStockMax :
        InventoryStatus(ReorderPointOf(base_stock), MaxStockOf(base_stock)) # "CRITICAL"

\* C23: no record of generate_inventory_data, for any base_stock in 100..1000
\* and any consumption sequence, has the status CRITICAL (stock_percentage
\* < 10), so generate_alert_history emits no alert of type CRITICAL or of
\* priority HIGH.
C23_NeverCritical ==
    /\ AboveCriticalAtReorderPoint
    /\ inventory_data # NoRow =>
          \A i \in 1 .. Len(Records) :
             /\ Records[i].stock_status # "CRITICAL"
             /\ Records[i].stock_percentage >= 1000
    /\ alert_history # NotShown =>
          \A k \in 1 .. Len(alert_history.alerts) :
             /\ alert_history.alerts[k].alert_type # "CRITICAL"
             /\ alert_history.alerts[k].priority # "HIGH"

\* an alert was emitted: it is LOW and MEDIUM
C23_Witness ==
    /\ alert_history # NotShown
    /\ \E k \in 1 .. Len(alert_history.alerts) :
          /\ alert_history.alerts[k].alert_type = "LOW"
          /\ alert_history.alerts[k].priority = "MEDIUM"

\* C24: a record has restocked = True exactly when the stock after that day's
\* consumption was below reorder_point, and its current_stock then equals
\* max_stock (status GOOD); hence every alert of generate_alert_history has
\* resolved = False and the unresolved filter of load_demo_data keeps every
\* alert.
C24_AlertsNeverResolved ==
    /\ inventory_data # NoRow =>
          \A i \in 1 .. Len(Records) :
             LET r == Records[i]
             IN  /\ r.restocked <=> (StockBefore(i) - r.consumption < r.reorder_point)
                 /\ r.restocked => (r.current_stock = r.max_stock /\ r.stock_status = "GOOD")
    /\ alert_history # NotShown =>
          /\ \A k \in 1 .. Len(alert_history.alerts) : alert_history.alerts[k].resolved = FALSE
          /\ alert_history.loaded => alert_history.unresolved = alert_history.alerts

\* the item was restocked on one day and raised an alert on another, and
\* load_demo_data kept the alert
C24_Witness ==
    /\ alert_history # NotShown
    /\ alert_history.loaded
    /\ Len(alert_history.unresolved) > 0
    /\ \E i \in 1 .. Len(Records) : Records[i].restocked

\* ---------------------------------------------------------------------------
\* The multi-agent chat: components/cortex_ai.py, cortex_chat_interface
\* ---------------------------------------------------------------------------

\* row_count <= 20 puts every row of the result into the response prompt
MaxShownRows == 20

\* the questions typed into st.text_input; "" is the untouched input
Questions == {"", "critical items", "top 5 by value"}

\* the token for the three backquotes of a markdown code fence
Fence == "fence"

\* what cursor.fetchone() gives after the Agent 1 call: no row, or a row whose
\* first column is the text of the model, taken as a sequence of tokens
Agent1Results ==
    { [row |-> FALSE, text |-> <<>>] } \cup
    { [row |-> TRUE, text |-> t] :
        t \in { <<>>,
                <<"SELECT">>,
                <<Fence, "sql", "SELECT", Fence>>,
                <<Fence, "SELECT", Fence>>,
                <<Fence, "sql", "SELECT", Fence, "explanation">>,
                <<"explanation", Fence, "sql", "SELECT", Fence>>,
                <<Fence, Fence>> } }

\* generated_sql.split(fence)[1] for a text that starts with a fence: what
\* stands between the first fence and the next one (or the end)
RECURSIVE UpToFence(_)
UpToFence(text) ==
    IF text = <<>> \/ Head(text) = Fence THEN <<>>
    ELSE <<Head(text)>> \o UpToFence(Tail(text))

\* the clean-up of the generated SQL: the fenced part when the text starts
\* with a fence, without a leading "sql"
CleanSql(text) ==
    LET unfenced == IF text # <<>> /\ Head(text) = Fence THEN UpToFence(Tail(text)) ELSE text
    IN  IF unfenced # <<>> /\ Head(unfenced) = "sql" THEN Tail(unfenced) ELSE unfenced

\* the texts pd.read_sql can run at all; anything else raises
IsRunnable(generated_sql) == generated_sql = <<"SELECT">>

\* the row counts of a query result
RowCounts == {0, 1, MaxShownRows + 1}

\* the rows of the result written into the response prompt
RowsInPrompt(row_count) == IF row_count <= MaxShownRows THEN row_count ELSE MaxShownRows

\* a question typed in and not yet worked on
Asked(question) ==
    [ asked |-> TRUE, question |-> question, sql_result |-> [row |-> FALSE, text |-> <<>>],
      generated_sql |-> <<>>, row_count |-> 0, duplicate_columns |-> FALSE, prompt_rows |-> 0,
      raised |-> "none", steps |-> <<>>, shown |-> {} ]

\* if user_question: ... the call of Agent 1, the check of its result and the
\* clean-up of the SQL; an exception goes to the outer except
AskAgent1 ==
    /\ pc = "question"
    /\ IF chat.question = ""
       THEN /\ chat' = chat
            /\ pc' = "chat_done"
       ELSE \/ /\ chat' = [chat EXCEPT !.steps = Append(@, "agent1_call"),
                                       !.raised = "agent1_call",
                                       !.shown = @ \cup {"outer_error"}]
               /\ pc' = "chat_done"
            \/ \E sql_result \in Agent1Results :
                  IF ~sql_result.row \/ sql_result.text = <<>>
                  THEN /\ chat' = [chat EXCEPT !.steps = Append(@, "agent1_call"),
                                               !.sql_result = sql_result,
                                               !.shown = @ \cup {"generation_failed"}]
                       /\ pc' = "chat_done"
                  ELSE /\ chat' = [chat EXCEPT !.steps = Append(@, "agent1_call"),
                                               !.sql_result = sql_result,
                                               !.generated_sql = CleanSql(sql_result.text),
                                               !.shown = @ \cup {"generated_sql"}]
                       /\ pc' = "execute_sql"
    /\ UNCHANGED <<item, rec, days, draws, forecast, metrics, sessions, generatorVars,
                   dbVars, frameVars, outputVars>>

\* query_df = pd.read_sql(generated_sql, conn) and the results string
ExecuteSql ==
    /\ pc = "execute_sql"
    /\ \/ /\ chat' = [chat EXCEPT !.steps = Append(@, "sql_execution"),
                                  !.raised = "sql_execution"]
          /\ pc' = "handle_error"
       \/ /\ IsRunnable(chat.generated_sql)
          /\ \E row_count \in RowCounts, duplicate_columns \in BOOLEAN :
                chat' = [chat EXCEPT !.steps = Append(@, "sql_execution"),
                                     !.row_count = row_count,
                                     !.duplicate_columns = duplicate_columns,
                                     !.prompt_rows = RowsInPrompt(row_count)]
          /\ pc' = "respond"
    /\ UNCHANGED <<item, rec, days, draws, forecast, metrics, sessions, generatorVars,
                   dbVars, frameVars, outputVars>>

\* cursor.execute(response_query); if response_result: the AI response is shown
GenerateResponse ==
    /\ pc = "respond"
    /\ \/ /\ chat' = [chat EXCEPT !.steps = Append(@, "response_call"),
                                  !.raised = "response_call"]
          /\ pc' = "handle_error"
       \/ /\ chat' = [chat EXCEPT !.steps = Append(@, "response_call")]
          /\ pc' = "chat_done"
       \/ /\ chat' = [chat EXCEPT !.steps = Append(@, "response_call"),
                                  !.shown = @ \cup {"ai_response"}]
          /\ pc' = IF chat.row_count > 0 THEN "raw_data" ELSE "chat_done"
    /\ UNCHANGED <<item, rec, days, draws, forecast, metrics, sessions, generatorVars,
                   dbVars, frameVars, outputVars>>

\* if row_count > 0: st.dataframe(query_df), still inside the try; a frame
\* with duplicate column names is rejected
ShowRawData ==
    /\ pc = "raw_data"
    /\ IF chat.duplicate_columns
       THEN /\ chat' = [chat EXCEPT !.steps = Append(@, "raw_data"),
                                    !.raised = "raw_data"]
            /\ pc' = "handle_error"
       ELSE /\ chat' = [chat EXCEPT !.steps = Append(@, "raw_data"),
                                    !.shown = @ \cup {"raw_data"}]
            /\ pc' = "chat_done"
    /\ UNCHANGED <<item, rec, days, draws, forecast, metrics, sessions, generatorVars,
                   dbVars, frameVars, outputVars>>

\* except Exception as sql_error: "Query execution failed", the error-handling
\* call, its explanation and the technical details; an exception of the call
\* goes to the outer except
HandleError ==
    /\ pc = "handle_error"
    /\ \/ chat' = [chat EXCEPT !.steps = Append(@, "error_call"),
                               !.shown = @ \cup {"query_failed", "outer_error"}]
       \/ chat' = [chat EXCEPT !.steps = Append(@, "error_call"),
                               !.shown = @ \cup {"query_failed", "technical_details"}]
       \/ chat' = [chat EXCEPT !.steps = Append(@, "error_call"),
                               !.shown = @ \cup {"query_failed", "error_explanation",
                                                 "technical_details"}]
    /\ pc' = "chat_done"
    /\ UNCHANGED <<item, rec, days, draws, forecast, metrics, sessions, generatorVars,
                   dbVars, frameVars, outputVars>>

\* the next question typed in reruns the script
NewQuestion ==
    /\ pc = "chat_done"
    /\ \E question \in Questions : chat' = Asked(question)
    /\ pc' = "question"
    /\ UNCHANGED <<item, rec, days, draws, forecast, metrics, sessions, generatorVars,
                   dbVars, frameVars, outputVars>>

InitChat ==
    /\ item = NoRow
    /\ rec = NoRow
    /\ days = NotShown
    /\ NoForecast
    /\ metrics = NotShown
    /\ sessions = NoSessions
    /\ NothingGenerated
    /\ \E question \in Questions : chat = Asked(question)
    /\ pc = "question"
    /\ NoDatabase
    /\ NothingLoaded

NextChat ==
    \/ AskAgent1
    \/ ExecuteSql
    \/ GenerateResponse
    \/ ShowRawData
    \/ HandleError
    \/ NewQuestion

SpecChat == InitChat /\ [][NextChat]_vars

\* the step was taken for the question
Took(step) == \E i \in 1 .. Len(chat.steps) : chat.steps[i] = step

\* the generated SQL is executed only after Agent 1 returned a non-empty result
SqlAfterAgent1 ==
    Took("sql_execution") =>
        /\ chat.steps[1] = "agent1_call"
        /\ chat.sql_result.row
        /\ chat.sql_result.text # <<>>

\* the response-generation call is issued only after the SQL executed without error
ResponseAfterSql ==
    \A i \in 1 .. Len(chat.steps) :
        chat.steps[i] = "response_call" =>
            /\ i > 1
            /\ chat.steps[i - 1] = "sql_execution"
            /\ chat.raised # "sql_execution"

\* the error-handling call is issued only after the SQL execution or the
\* response call raised
ErrorCallAfterRaise ==
    Took("error_call") => chat.raised \in {"sql_execution", "response_call"}

\* an AI response and an error explanation are never both shown
NeverBothShown ==
    ~ ({"ai_response", "error_explanation"} \subseteq chat.shown)

\* C28: for each question submitted to cortex_chat_interface the steps happen
\* in a fixed order: the generated SQL is executed only after Agent 1 returned
\* a non-empty result, the response-generation call is issued only after the
\* SQL executed without error, and the error-handling call is issued only
\* after the SQL execution or the response call raised; an AI response and an
\* error explanation are never both shown for the same question.
C28_ChatStepsInOrder ==
    chat.asked =>
        /\ SqlAfterAgent1
        /\ ResponseAfterSql
        /\ ErrorCallAfterRaise
        /\ NeverBothShown

Init == InitDashboard
Next == NextDashboard
Spec == Init /\ [][Next]_vars

====
